---------------------------- MODULE Spec2Model ----------------------------
(***************************************************************************)
(* A model of the SLOTHY heuristic driver (src/slothy/heuristics.py) and   *)
(* of the loop extraction of the AArch64 frontend                          *)
(* (src/targets/aarch64/aarch64_neon.py).                                  *)
(*                                                                         *)
(* The module holds one state machine per entry point; each has its own    *)
(* initial predicate, next-state relation and specification:               *)
(*   SpecExtract    Loop.extract                                           *)
(*   SpecBinsearch  Heuristics.optimize_binsearch (external and internal)  *)
(*   SpecPeriodic   Heuristics.periodic                                    *)
(*   SpecLinear     Heuristics.linear, _split, _split_inner                *)
(*   SpecNaive      Heuristics._naive_reordering                           *)
(* A specification leaves the variables of the other machines at their     *)
(* idle values.                                                            *)
(***************************************************************************)
EXTENDS Integers, Sequences, FiniteSets, TLC

VARIABLES
    \* ---- Loop.extract
    lbl,        \* the requested label
    source,     \* the lines handed out by the iterator `lines` so far
    exhausted,  \* the iterator has returned None
    l,          \* the current line
    keep,       \* the current line is processed again
    state,      \* 0: before the loop, 1: in the loop, 2: after subs, 3: after the loop
    pre, body, post,
    regs,       \* (reg0, reg1, imm) of the subs line that was recognised
    xpc,        \* "idle", "run", "returned", "raised"
    \* ---- the heuristic driver: what its entry points share
    conf,       \* the caller's Config object
    c,          \* the copy of conf the running function works on
    ret,        \* the value returned to the caller
    err,        \* the exception that left the call
    diag,       \* what the call has logged at warning or error level: a set of tags
    log,        \* one entry per solver call made, in order
    \* ---- Heuristics.optimize_binsearch
    bpc,        \* where the call stands
    core,       \* the SlothyBase object of the latest solver call: its config and result
    val,        \* binary_search: the stall count to try next
    last_failure, last_success,
    last_success_core,  \* binary_search: the core of the latest success
    last_successful,    \* try_with_stalls: the code of the latest success it remembered
    cur_attempt, min_stalls, first_result,
    \* ---- Heuristics.periodic
    ppc,        \* where the call stands
    conf0,      \* the value conf had when periodic was called
    body_inputs, \* the live-in registers of the unrolled body
    \* ---- Heuristics._naive_reordering
    npc,        \* "run", "returned", "raised"
    old,        \* the instructions of the block as handed in, in order
    nbody,      \* the block: each line is named by its position in `old`
    insts,      \* the instructions of the block, in the order of nbody
    depths,     \* their depths, in the order of nbody
    ni,         \* the position being filled: the loop variable i, counted from 1
    \* ---- Heuristics.linear, _split, _split_inner
    lpc,        \* where the call stands
    lbody,      \* the block handed to linear: its lines, each named by a number
    lpre, lpost,    \* _split: the lines before and after the region
    cur_body,   \* _split_inner: the block being optimised
    orig_conf,  \* _split_inner: the configuration saved before the dry pass
    idx_lst,    \* the windows of the running pass that are still to be optimised
    in_dry,     \* the running pass is the dry pass
    passes_left,    \* the real passes still to be started
    stall_map,  \* _split_inner's stalls: the set of positions that stall
    naive_done, \* the block was reordered by _naive_reordering
    solved_after_naive, \* solver passes over the block since then
    \* ---- Heuristics._periodic_halving
    hpc,        \* where the call stands
    hbody,      \* the loop body handed to the heuristic
    lin_kernel, \* what the first call of linear returned
    kernel,     \* the local kernel
    preamble, postamble,    \* kernel_low and kernel_high
    num_exceptional_iterations,
    \* ---- Instruction.parser
    par_pc,     \* where the call stands
    par_src,    \* the line handed to the parser
    par_insts,  \* insts: the instructions of the variants that accepted the line
    par_exceptions, \* exceptions: the variants that rejected the line
    \* ---- the pair-fusion callbacks
    cb_pc,      \* where the call stands
    cb_inst,    \* inst: the instruction the callback is called for
    dst_in_out, \* t.dst_in_out: for each in-out operand, the consumers of its value
    cb_ret,     \* what the callback returned
    cb_trues,    \* how often the callback returned True for this instruction
    \* ---- make_idx_list_consecutive
    win_pc,        \* "idle", "loop", "done"
    win_factor,    \* factor
    win_increment, \* increment, in units of 1 / One
    win_body,      \* the block the fractions are turned into indices of
    win_start,     \* cur_start, in units of 1 / One
    win_end,       \* cur_end, in units of 1 / One
    win_fracs,     \* start_pos_lst and end_pos_lst, zipped
    win_idxs       \* the windows returned

exVars == <<lbl, source, exhausted, l, keep, state, pre, body, post, regs, xpc>>

drvVars == <<conf, c, ret, err, diag, log>>

bsVars == <<bpc, core, val, last_failure, last_success, last_success_core,
            last_successful, cur_attempt, min_stalls, first_result>>

perVars == <<ppc, conf0, body_inputs>>

nvVars == <<npc, old, nbody, insts, depths, ni>>

linVars == <<lpc, lbody, lpre, lpost, cur_body, orig_conf, idx_lst, in_dry,
             passes_left, stall_map, naive_done, solved_after_naive>>

halVars == <<hpc, hbody, lin_kernel, kernel, preamble, postamble,
             num_exceptional_iterations>>

parVars == <<par_pc, par_src, par_insts, par_exceptions>>

cbVars == <<cb_pc, cb_inst, dst_in_out, cb_ret, cb_trues>>

winVars == <<win_pc, win_factor, win_increment, win_body, win_start, win_end,
             win_fracs, win_idxs>>

vars == <<exVars, drvVars, bsVars, perVars, nvVars, linVars, halVars, parVars, cbVars, winVars>>

\* what the steps of one entry point leave alone
ExFrame  == UNCHANGED <<drvVars, bsVars, perVars, nvVars, linVars, halVars, parVars, cbVars, winVars>>
BsFrame  == UNCHANGED <<exVars, perVars, nvVars, linVars, halVars, parVars, cbVars, winVars>>
PerFrame == UNCHANGED <<exVars, bsVars, nvVars, linVars, halVars, parVars, cbVars, winVars>>
NvFrame  == UNCHANGED <<exVars, drvVars, bsVars, perVars, linVars, halVars, parVars, cbVars, winVars>>
LinFrame == UNCHANGED <<exVars, bsVars, perVars, nvVars, halVars, parVars, cbVars, winVars>>
HalFrame == UNCHANGED <<exVars, bsVars, perVars, nvVars, linVars, parVars, cbVars, winVars>>
ParFrame == UNCHANGED <<exVars, drvVars, bsVars, perVars, nvVars, linVars, halVars, cbVars, winVars>>
CbFrame  == UNCHANGED <<exVars, drvVars, bsVars, perVars, nvVars, linVars, halVars, parVars, winVars>>
WinFrame == UNCHANGED <<exVars, drvVars, bsVars, perVars, nvVars, linVars, halVars, parVars, cbVars>>

None == [kind |-> "none", tok |-> <<>>, arg |-> 0]

-----------------------------------------------------------------------------
(***************************************************************************)
(* Loop.extract                                                            *)
(*                                                                         *)
(* A label or branch target is a sequence of word characters; a character  *)
(* is a number.  <<1>> reads "loop", <<1,2>> "loop_end", <<2,1>> "myloop". *)
(* A line is a record:                                                     *)
(*   kind "lbl"   tok: the label,  arg: the text after the colon           *)
(*                (0: nothing, 1: the instruction Ins(1))                  *)
(*   kind "subs"  arg: names the operands (reg0, reg1, imm)                *)
(*   kind "br"    a cbnz/bnz line, tok: the branch target,                 *)
(*                arg: 1 "cbnz x0, <tok>", 0 "bnz <tok>"                   *)
(*   kind "ins"   any other instruction, arg: which one                    *)
(*   kind "text"  the empty text                                           *)
(***************************************************************************)
MaxLines == 5

Lbl(t, r)  == [kind |-> "lbl",  tok |-> t,    arg |-> r]
Subs(k)    == [kind |-> "subs", tok |-> <<>>, arg |-> k]
Br(t, r)   == [kind |-> "br",   tok |-> t,    arg |-> r]
Ins(k)     == [kind |-> "ins",  tok |-> <<>>, arg |-> k]
EmptyText  == [kind |-> "text", tok |-> <<>>, arg |-> 0]

LOOP     == <<1>>
LOOP_END == <<1, 2>>
MYLOOP   == <<2, 1>>

SourceLines ==
    { Lbl(LOOP, 0), Lbl(LOOP, 1), Lbl(LOOP_END, 0),
      Ins(1), Subs(1), Subs(2),
      Br(LOOP, 1), Br(LOOP_END, 1), Br(MYLOOP, 0) }

IsPrefix(s, t) == Len(s) <= Len(t) /\ SubSeq(t, 1, Len(s)) = s

Occurs(s, t) == \E k \in 0..(Len(t) - Len(s)) : SubSeq(t, k + 1, k + Len(s)) = s

\* loop_lbl_regexp matches and the label it captures is the requested one
IsLoopLabelAny(line, lb) == line.kind = "lbl"
IsLoopLabel(line, lb) == line.kind = "lbl" /\ line.tok = lb

\* p.group("remainder"): the text after the colon
Remainder(line) == IF line.arg = 0 THEN EmptyText ELSE Ins(line.arg)

\* loop_end_regexp[0].match
MatchesSubs(line) == line.kind = "subs"

\* loop_end_regexp[1].match: ^\s*(cbnz|bnz)\s+\w*,*\s*{lbl} is anchored at the
\* start of the line only.  With a register operand, \w* takes the register and
\* the label has to start the target; without one, \w* takes any number of
\* leading characters of the target.  Nothing anchors the end of the label.
MatchesBranch(line, lb) ==
    /\ line.kind = "br"
    /\ IF line.arg = 1 THEN IsPrefix(lb, line.tok) ELSE Occurs(lb, line.tok)

ExInit ==
    /\ lbl \in {LOOP}
    /\ source = <<>>
    /\ exhausted = FALSE
    /\ l = None
    /\ keep = FALSE
    /\ state = 0
    /\ pre = <<>> /\ body = <<>> /\ post = <<>>
    /\ regs = 0
    /\ xpc = "run"

\* l = next(lines, None): the lines the iterator can hand out next
NextLines == IF Len(source) < MaxLines THEN SourceLines \cup {None} ELSE {None}

\* One turn of the while loop.  `cur` is the line the turn works on: the line
\* kept from the turn before, or the next one of the iterator.
Fetch(cur) ==
    /\ xpc = "run"
    /\ IF keep
       THEN cur = l /\ UNCHANGED <<source, exhausted>>
       ELSE /\ cur \in NextLines
            /\ source' = IF cur = None THEN source ELSE Append(source, cur)
            /\ exhausted' = (cur = None)

ExtractBreak ==
    \E cur \in {None} \cup {l} :
        /\ Fetch(cur)
        /\ cur = None
        /\ l' = cur /\ keep' = FALSE
        /\ xpc' = IF state < 3 THEN "raised" ELSE "returned"
        /\ UNCHANGED <<lbl, state, pre, body, post, regs>>
        /\ ExFrame

ExtractState0 ==
    \E cur \in SourceLines \cup {l} :
        /\ Fetch(cur)
        /\ cur # None
        /\ state = 0
        /\ IF IsLoopLabel(cur, lbl)
           THEN /\ l' = Remainder(cur)
                /\ keep' = TRUE
                /\ state' = 1
                /\ pre' = pre
           ELSE /\ l' = cur
                /\ keep' = FALSE
                /\ state' = 0
                /\ pre' = Append(pre, cur)
        /\ UNCHANGED <<lbl, body, post, regs, xpc>>
        /\ ExFrame

ExtractState1 ==
    \E cur \in SourceLines \cup {l} :
        /\ Fetch(cur)
        /\ cur # None
        /\ state = 1
        /\ l' = cur /\ keep' = FALSE
        /\ IF MatchesSubs(cur)
           THEN regs' = cur.arg /\ state' = 2 /\ body' = body
           ELSE regs' = regs /\ state' = 1 /\ body' = Append(body, cur)
        /\ UNCHANGED <<lbl, pre, post, xpc>>
        /\ ExFrame

ExtractState2 ==
    \E cur \in SourceLines \cup {l} :
        /\ Fetch(cur)
        /\ cur # None
        /\ state = 2
        /\ l' = cur /\ keep' = FALSE
        /\ IF MatchesBranch(cur, lbl)
           THEN state' = 3 /\ body' = body
           ELSE state' = 2 /\ body' = Append(body, cur)
        /\ UNCHANGED <<lbl, pre, post, regs, xpc>>
        /\ ExFrame

ExtractState3 ==
    \E cur \in SourceLines \cup {l} :
        /\ Fetch(cur)
        /\ cur # None
        /\ state = 3
        /\ l' = cur /\ keep' = FALSE
        /\ post' = Append(post, cur)
        /\ UNCHANGED <<lbl, state, pre, body, regs, xpc>>
        /\ ExFrame

ExNext ==
    \/ ExtractBreak
    \/ ExtractState0
    \/ ExtractState1
    \/ ExtractState2
    \/ ExtractState3

-----------------------------------------------------------------------------
(***************************************************************************)
(* Loop.extract: what the split is compared with.  These read the source   *)
(* text only.                                                              *)
(***************************************************************************)
MinOf(S) == CHOOSE x \in S : \A y \in S : x <= y
MaxOf(S) == CHOOSE x \in S : \A y \in S : y <= x

\* the first line headed by the label lb (0: there is none)
LabelAt(src, lb) ==
    LET S == { i \in DOMAIN src : src[i].kind = "lbl" /\ src[i].tok = lb }
    IN  IF S = {} THEN 0 ELSE MinOf(S)

\* the first subs line after line i (0: there is none)
SubsAfter(src, i) ==
    LET S == { j \in DOMAIN src : j > i /\ src[j].kind = "subs" }
    IN  IF S = {} THEN 0 ELSE MinOf(S)

\* the first line after line j that the terminator pattern accepts for lb
TerminatorAfter(src, j, lb) ==
    LET S == { k \in DOMAIN src : k > j /\ MatchesBranch(src[k], lb) }
    IN  IF S = {} THEN 0 ELSE MinOf(S)

\* the first cbnz/bnz line after line j whose target is the label lb itself
BranchToLabelAfter(src, j, lb) ==
    LET S == { k \in DOMAIN src : k > j /\ src[k].kind = "br" /\ src[k].tok = lb }
    IN  IF S = {} THEN 0 ELSE MinOf(S)

\* the last subs line strictly between lines i and k
LastSubsBetween(src, i, k) ==
    LET S == { p \in DOMAIN src : i < p /\ p < k /\ src[p].kind = "subs" }
    IN  IF S = {} THEN 0 ELSE MaxOf(S)

\* the text after the colon of label line i
TextAfterColon(src, i) == IF src[i].arg = 0 THEN EmptyText ELSE Ins(src[i].arg)

\* the lines i+1 .. k-1 without line p
Between(src, i, p, k) == SubSeq(src, i + 1, p - 1) \o SubSeq(src, p + 1, k - 1)

\* C4: the body is the text after the colon followed by every line between the
\* label line and the terminating branch, in source order, except the subs that
\* pairs with that branch (the last subs before it), also when an earlier subs
\* that is not followed by the branch lies in the loop.
C4_BodyIsLoopRange ==
    xpc = "returned" =>
        LET i == LabelAt(source, lbl)
            j == SubsAfter(source, i)
            k == TerminatorAfter(source, j, lbl)
            p == LastSubsBetween(source, i, k)
        IN  body = <<TextAfterColon(source, i)>> \o Between(source, i, p, k)

\* C5: extract raises exactly when the label heads no line, or no subs line
\* follows the label, or no cbnz/bnz to the label follows that subs; otherwise
\* it returns.
C5_RaisesIffNoLoop ==
    xpc # "run" =>
        LET i == LabelAt(source, lbl)
            j == IF i = 0 THEN 0 ELSE SubsAfter(source, i)
            k == IF j = 0 THEN 0 ELSE BranchToLabelAfter(source, j, lbl)
        IN  /\ (xpc = "raised") <=> (i = 0 \/ j = 0 \/ k = 0)
            /\ (xpc = "returned") <=> ~(i = 0 \/ j = 0 \/ k = 0)

\* C6: when extract returns, pre is the lines before the label line and post the
\* lines after the branch taken as the terminator, unchanged and in order, and
\* the body holds lines of the loop only (the text after the colon, then the
\* lines between the label line and the terminator less one subs line).
C6_PrePostVerbatim ==
    xpc = "returned" =>
        LET i == LabelAt(source, lbl)
            j == SubsAfter(source, i)
            k == TerminatorAfter(source, j, lbl)
        IN  /\ i > 0 /\ j > i /\ k > j
            /\ pre = SubSeq(source, 1, i - 1)
            /\ post = SubSeq(source, k + 1, Len(source))
            /\ \E p \in (i + 1)..(k - 1) :
                   /\ source[p].kind = "subs"
                   /\ body = <<TextAfterColon(source, i)>> \o Between(source, i, p, k)

\* C6 witness: a split with a label before the loop and a label after it
C6_Witness ==
    /\ xpc = "returned"
    /\ \E n \in DOMAIN pre : pre[n].kind = "lbl"
    /\ \E n \in DOMAIN post : post[n].kind = "lbl"

\* C22: the branch line taken as the terminator of the loop has exactly the
\* requested label as its target; a target that only starts with the label or
\* holds it does not end the loop
C22_TerminatorTargetIsLabel ==
    xpc = "returned" =>
        LET i == LabelAt(source, lbl)
            j == SubsAfter(source, i)
            k == TerminatorAfter(source, j, lbl)
        IN  /\ source[k].kind = "br"
            /\ source[k].tok = lbl

-----------------------------------------------------------------------------
(***************************************************************************)
(* Config.  The fields the driver reads or writes; conf.copy() is a deep    *)
(* copy, so a copy is the record's value.  Nothing stands for None in the  *)
(* numeric fields.  A fraction is a pair <<numerator, denominator>>; the   *)
(* step size <<0, 1>> stands for None.                                     *)
(***************************************************************************)
Nothing == 0 - 1

DefaultConfig ==
    [ variable_size |-> FALSE,
      has_objective |-> FALSE,
      ignore_objective |-> FALSE,
      timeout |-> Nothing,
      stalls_allowed |-> 0,
      stalls_minimum_attempt |-> 0,
      stalls_first_attempt |-> 0,
      stalls_maximum_attempt |-> 0,
      stalls_precision |-> 0,
      stalls_timeout_below_precision |-> Nothing,
      ext_bsearch_remember_successes |-> FALSE,
      rename_hint_orig_rename |-> FALSE,
      order_hint_orig_order |-> FALSE,
      outputs |-> {},
      inputs_are_outputs |-> FALSE,
      rename_inputs |-> "any",
      rename_outputs |-> "any",
      allow_reordering |-> TRUE,
      allow_renaming |-> TRUE,
      visualize_reordering |-> TRUE,
      split_heuristic |-> FALSE,
      split_heuristic_factor |-> 2,
      split_heuristic_stepsize |-> <<0, 1>>,
      split_heuristic_repeat |-> 1,
      split_heuristic_region |-> <<<<0, 1>>, <<1, 1>>>>,
      split_heuristic_random |-> FALSE,
      split_heuristic_chunks |-> FALSE,
      split_heuristic_bottom_to_top |-> FALSE,
      split_heuristic_optimize_seam |-> 0,
      split_heuristic_abort_cycle_at |-> Nothing,
      split_heuristic_preprocess_naive_interleaving |-> FALSE,
      split_heuristic_visualize_stalls |-> FALSE,
      split_heuristic_visualize_units |-> FALSE,
      sw_pipelining |->
          [ enabled |-> FALSE,
            halving_heuristic |-> FALSE,
            halving_heuristic_periodic |-> FALSE,
            optimize_preamble |-> FALSE,
            optimize_postamble |-> FALSE,
            minimize_overlapping |-> TRUE,
            allow_pre |-> TRUE,
            allow_post |-> TRUE ] ]

(***************************************************************************)
(* Heuristics.optimize_binsearch                                           *)
(*                                                                         *)
(* The solver is the environment: each call succeeds or fails (infeasible  *)
(* or timed out), and a success yields a fresh Result.  A piece of code is *)
(* named by a number: SourceCode is the caller's source, n >= 1 the code   *)
(* of the result of solver call n.                                         *)
(***************************************************************************)
MaxStalls == 4
MaxFirst  == 2

SourceCode == 0
NoCode     == Nothing
NoResult   == [id |-> 0, stalls |-> 0, code |-> NoCode]
NoConfig   == <<>>
NoCore     == [config |-> NoConfig, result |-> NoResult]

BsConfigs ==
    { [DefaultConfig EXCEPT
          !.variable_size = t[1],
          !.has_objective = t[2],
          !.ext_bsearch_remember_successes = t[3],
          !.stalls_first_attempt = t[4],
          !.stalls_maximum_attempt = t[5],
          !.stalls_precision = t[6],
          !.stalls_timeout_below_precision = t[7]] :
      \* a first attempt below 0 is followed through the internal search only
      t \in { u \in BOOLEAN \X BOOLEAN \X BOOLEAN \X ((-1)..MaxFirst)
                     \X (0..MaxStalls) \X {1, 2} \X {Nothing, 7} :
                 u[4] >= 0 \/ u[1] } }

BsInit ==
    /\ conf \in BsConfigs
    /\ bpc = "start"
    /\ c = conf
    /\ core = NoCore
    /\ val = 0 /\ last_failure = 0 /\ last_success = 0
    /\ last_success_core = NoCore
    /\ last_successful = NoCode
    /\ cur_attempt = 0 /\ min_stalls = 0
    /\ first_result = NoResult
    /\ ret = NoResult
    /\ err = "none"
    /\ diag = {}
    /\ log = <<>>

\* The Result of a successful solver call: the call's number names it and its
\* code; it has at most the stalls the call allowed.
NewResult(stalls) == [id |-> Len(log) + 1, stalls |-> stalls, code |-> Len(log) + 1]

LogEntry(kind, cfg, src, success, result) ==
    [kind |-> kind, config |-> cfg, src |-> src, success |-> success, result |-> result]

\* The caller's Config after a statement wrote `written` into what conf.copy()
\* returned.  Were copy() to hand back the object itself, the caller's Config
\* would be the written one.
AfterWriteToAlias(orig, written) == written

\* Config.copy() is a deep copy: the writes stay in the copy
AfterWriteToCopy(orig, written) == orig

\* optimize_binsearch: the dispatch on conf.variable_size; the external search
\* copies conf and sets ignore_objective, and binary_search starts
Dispatch ==
    /\ bpc = "start"
    /\ IF conf.variable_size
       THEN /\ cur_attempt' = conf.stalls_first_attempt
            /\ bpc' = "int_attempt"
            /\ UNCHANGED <<conf, c, val, last_failure>>
       ELSE /\ c' = [conf EXCEPT !.ignore_objective = TRUE]
            /\ conf' = AfterWriteToCopy(conf, c')
            /\ val' = c'.stalls_first_attempt
            /\ last_failure' = c'.stalls_minimum_attempt - 1
            /\ bpc' = "bs_up"
            /\ UNCHANGED cur_attempt
    /\ UNCHANGED <<core, last_success, last_success_core, last_successful,
                   min_stalls, first_result, ret, err, diag, log>>
    /\ BsFrame

\* try_with_stalls: the Config of the attempt
AttemptConfig(cfg, stalls, timeout) ==
    LET c1 == [cfg EXCEPT !.stalls_allowed = stalls]
        c2 == IF c1.ext_bsearch_remember_successes
              THEN [c1 EXCEPT !.rename_hint_orig_rename = TRUE,
                              !.order_hint_orig_order = TRUE]
              ELSE c1
    IN  IF timeout # Nothing THEN [c2 EXCEPT !.timeout = timeout] ELSE c2

\* every attempt starts from the caller's source
AttemptSourceOriginal == SourceCode

\* try_with_stalls: the source of the attempt
AttemptSource == IF last_successful # NoCode THEN last_successful ELSE SourceCode

\* try_with_stalls(stalls, timeout) with the solver answering `success`
TryWithStalls(stalls, timeout, success) ==
    LET cfg == AttemptConfig(c, stalls, timeout)
        res == IF success THEN NewResult(stalls) ELSE NoResult
    IN  /\ core' = [config |-> cfg, result |-> res]
        /\ conf' = AfterWriteToCopy(conf, cfg)
        /\ last_successful' =
              IF success /\ cfg.ext_bsearch_remember_successes
              THEN res.code ELSE last_successful
        /\ log' = Append(log, LogEntry("search", cfg, AttemptSource, success, res))

\* binary_search, first loop: double the stall count until an attempt succeeds;
\* past the threshold BinarySearchLimitException is raised
SearchUp ==
    /\ bpc = "bs_up"
    /\ IF val > c.stalls_maximum_attempt
       THEN /\ bpc' = "bs_limit"
            /\ UNCHANGED <<conf, core, val, last_failure, last_success,
                           last_success_core, last_successful, log>>
       ELSE \E success \in BOOLEAN :
            /\ TryWithStalls(val, Nothing, success)
            /\ IF success
               THEN /\ last_success' = val
                    /\ last_success_core' = core'
                    /\ bpc' = "bs_down"
                    /\ UNCHANGED <<val, last_failure>>
               ELSE /\ last_failure' = val
                    /\ val' = IF val = 0 THEN 1 ELSE 2 * val
                    /\ bpc' = "bs_up"
                    /\ UNCHANGED <<last_success, last_success_core>>
    /\ UNCHANGED <<c, cur_attempt, min_stalls, first_result, ret, err, diag>>
    /\ BsFrame

\* binary_search, second loop: halve the gap between the latest failure and the
\* latest success; at or below the precision stop, or go on under the timeout
SearchDown ==
    /\ bpc = "bs_down"
    /\ LET gap == last_success - last_failure
           stop == gap <= 1 \/ (gap <= c.stalls_precision
                                /\ c.stalls_timeout_below_precision = Nothing)
           timeout == IF gap <= c.stalls_precision
                      THEN c.stalls_timeout_below_precision ELSE Nothing
           mid == last_failure + (gap \div 2)
       IN  IF stop
           THEN /\ bpc' = "ext_found"
                /\ UNCHANGED <<conf, core, val, last_failure, last_success,
                               last_success_core, last_successful, log>>
           ELSE \E success \in BOOLEAN :
                /\ TryWithStalls(mid, timeout, success)
                /\ val' = mid
                /\ IF success
                   THEN /\ last_success' = mid
                        /\ last_success_core' = core'
                        /\ UNCHANGED last_failure
                   ELSE /\ last_failure' = mid
                        /\ UNCHANGED <<last_success, last_success_core>>
                /\ bpc' = "bs_down"
    /\ UNCHANGED <<c, cur_attempt, min_stalls, first_result, ret, err, diag>>
    /\ BsFrame

\* optimize_binsearch_core, the handler of BinarySearchLimitException: the
\* messages, the dump of the source and conf.log go to the error log; the next
\* statement reads `self`, a name the function does not have
LimitHandlerError == "NameError"

LimitHandler ==
    /\ bpc = "bs_limit"
    /\ diag' = diag \cup {"limit", "source", "config"}
    /\ err' = LimitHandlerError
    /\ bpc' = "raised"
    /\ UNCHANGED <<conf, c, core, val, last_failure, last_success, last_success_core,
                   last_successful, cur_attempt, min_stalls, first_result, ret, log>>
    /\ BsFrame

\* what the searches return after the second pass
RerunReturnCore(success, first, cr) == cr.result
RerunReturn(success, first, cr) == IF ~success THEN first ELSE cr.result

\* optimize_binsearch_external after optimize_binsearch_core has returned
\* (min_stalls, core): without an objective return core.result, else core.retry()
\* with the objective and fall back to the first result
ExternalFinish ==
    /\ bpc = "ext_found"
    /\ IF ~conf.has_objective
       THEN /\ ret' = last_success_core.result
            /\ core' = last_success_core
            /\ UNCHANGED <<conf, first_result, log>>
       ELSE \E success \in BOOLEAN :
            LET cfg == [last_success_core.config EXCEPT !.ignore_objective = FALSE]
                res == IF success THEN NewResult(last_success) ELSE NoResult
            IN  /\ first_result' = last_success_core.result
                /\ core' = [config |-> cfg, result |-> res]
                /\ conf' = AfterWriteToCopy(conf, cfg)
                /\ log' = Append(log, LogEntry("rerun", cfg,
                                               log[last_success_core.result.id].src,
                                               success, res))
                /\ ret' = RerunReturn(success, first_result', core')
    /\ min_stalls' = last_success
    /\ bpc' = "returned"
    /\ UNCHANGED <<c, val, last_failure, last_success, last_success_core,
                   last_successful, cur_attempt, err, diag>>
    /\ BsFrame

\* optimize_binsearch_internal, one turn of the while loop
InternalError == "Exception: No solution found"

\* cur_attempt = max(1, cur_attempt * 2)
NextAttemptDoubled(attempt) == 2 * attempt
NextAttempt(attempt) == IF 2 * attempt > 1 THEN 2 * attempt ELSE 1

\* more attempts than a search up to MaxStalls makes; the loop is followed up
\* to this many
MaxAttempts == MaxStalls + 3

InternalAttempt ==
    /\ bpc = "int_attempt"
    /\ Len(log) < MaxAttempts
    /\ c' = [conf EXCEPT !.variable_size = TRUE, !.stalls_allowed = cur_attempt]
    /\ conf' = AfterWriteToCopy(conf, c')
    /\ \E success \in BOOLEAN :
         \E stalls \in 0..(IF cur_attempt > 0 THEN cur_attempt ELSE 0) :
            LET res == IF success THEN NewResult(stalls) ELSE NoResult
                nxt == NextAttempt(cur_attempt)
            IN  /\ success \/ stalls = 0
                /\ core' = [config |-> c', result |-> res]
                /\ log' = Append(log, LogEntry("search", c', SourceCode, success, res))
                /\ IF success
                   THEN /\ min_stalls' = res.stalls
                        /\ bpc' = "int_found"
                        /\ UNCHANGED <<cur_attempt, err, diag>>
                   ELSE /\ cur_attempt' = nxt
                        /\ UNCHANGED min_stalls
                        /\ IF nxt > conf.stalls_maximum_attempt
                           THEN /\ diag' = diag \cup {"limit"}
                                /\ err' = InternalError
                                /\ bpc' = "raised"
                           ELSE /\ bpc' = "int_attempt"
                                /\ UNCHANGED <<err, diag>>
    /\ UNCHANGED <<val, last_failure, last_success, last_success_core,
                   last_successful, first_result, ret>>
    /\ BsFrame

\* optimize_binsearch_internal after the loop
InternalFinish ==
    /\ bpc = "int_found"
    /\ IF ~conf.has_objective
       THEN /\ ret' = core.result
            /\ UNCHANGED <<conf, c, core, first_result, log>>
       ELSE \E success \in BOOLEAN :
            LET res == IF success THEN NewResult(min_stalls) ELSE NoResult
            IN  /\ first_result' = core.result
                /\ c' = [conf EXCEPT !.variable_size = FALSE,
                                     !.stalls_allowed = min_stalls]
                /\ conf' = AfterWriteToCopy(conf, c')
                /\ core' = [config |-> c', result |-> res]
                /\ log' = Append(log, LogEntry("rerun", c', SourceCode, success, res))
                /\ ret' = RerunReturn(success, first_result', core')
    /\ bpc' = "returned"
    /\ UNCHANGED <<val, last_failure, last_success, last_success_core,
                   last_successful, cur_attempt, min_stalls, err, diag>>
    /\ BsFrame

BsNext ==
    \/ Dispatch
    \/ SearchUp
    \/ SearchDown
    \/ LimitHandler
    \/ ExternalFinish
    \/ InternalAttempt
    \/ InternalFinish

\* C2: when every attempt has failed the search does not return; it has logged
\* the source listing and the configuration and leaves with an error of its own
\* for the exhausted search.
SearchExhaustedErrors == {"BinarySearchLimitException", InternalError}

C2_ExhaustionDiagnosed ==
    (bpc \in {"returned", "raised"} /\ \A n \in DOMAIN log : ~log[n].success) =>
        /\ bpc = "raised"
        /\ {"source", "config"} \subseteq diag
        /\ err \in SearchExhaustedErrors

\* the attempts of the search, in their order
SearchCalls == SelectSeq(log, LAMBDA e : e.kind = "search")

\* C26: the internal search makes no attempt with stalls_allowed above
\* stalls_maximum_attempt, whatever stalls_first_attempt is; the budgets are
\* stalls_first_attempt and then max(1, 2 * previous) after each failure
C26_BudgetWithinMaximum ==
    conf.variable_size =>
        \A n \in DOMAIN SearchCalls :
            /\ SearchCalls[n].config.stalls_allowed <= conf.stalls_maximum_attempt
            /\ n = 1 => SearchCalls[n].config.stalls_allowed = conf.stalls_first_attempt
            /\ n > 1 =>
                  LET prev == SearchCalls[n - 1].config.stalls_allowed
                  IN  /\ ~SearchCalls[n - 1].success
                      /\ SearchCalls[n].config.stalls_allowed =
                             IF 2 * prev > 1 THEN 2 * prev ELSE 1

\* C27: the internal search ends, for every stalls_first_attempt and every
\* stalls_maximum_attempt and whatever the solver answers: once started it
\* returns a result or raises
C27_InternalSearchEnds ==
    (bpc = "int_attempt") ~> (bpc \in {"returned", "raised"})

\* C27 witness: a search that started below 1 has raised after several failed
\* attempts
C27_Witness ==
    /\ bpc = "raised"
    /\ conf.variable_size
    /\ conf.stalls_first_attempt < 0
    /\ Len(SearchCalls) >= 3
    /\ \A n \in DOMAIN SearchCalls : ~SearchCalls[n].success

\* C3: the value returned is the result of the second pass when it succeeded and
\* the result of the latest successful pass of the search when it failed; the
\* second pass is made once, with the objective, and only if has_objective is set.
C3_RerunFallback ==
    bpc = "returned" =>
        LET searchOk == { n \in DOMAIN log : log[n].kind = "search" /\ log[n].success }
            reruns   == { n \in DOMAIN log : log[n].kind = "rerun" }
            lastOk   == log[MaxOf(searchOk)].result
            final    == log[Len(log)]
        IN  /\ searchOk # {}
            /\ IF ~conf.has_objective
               THEN reruns = {} /\ ret = lastOk
               ELSE /\ reruns = {Len(log)}
                    /\ ~final.config.ignore_objective
                    /\ ~final.config.variable_size
                    /\ ret = IF final.success THEN final.result ELSE lastOk
            /\ ret # NoResult

\* C3 witness: the second pass failed and the search had a failed attempt after
\* its latest success
C3_Witness ==
    /\ bpc = "returned"
    /\ conf.has_objective
    /\ ~log[Len(log)].success
    /\ \E n \in DOMAIN log : log[n].kind = "search" /\ ~log[n].success /\ n > ret.id

-----------------------------------------------------------------------------
(***************************************************************************)
(* Heuristics.periodic                                                     *)
(*                                                                         *)
(* The body is known by its live-in registers; the functions periodic      *)
(* calls (linear, _periodic_halving, optimize_binsearch) return or raise.  *)
(***************************************************************************)
Regs == {"r0", "r1"}

PerConfigs ==
    { [DefaultConfig EXCEPT
          !.inputs_are_outputs = t[1],
          !.outputs = t[2],
          !.sw_pipelining.enabled = t[3],
          !.sw_pipelining.halving_heuristic = t[4],
          !.sw_pipelining.optimize_preamble = t[5],
          !.sw_pipelining.optimize_postamble = t[6]] :
      t \in BOOLEAN \X (SUBSET Regs) \X BOOLEAN \X BOOLEAN \X BOOLEAN \X BOOLEAN }

PerInit ==
    /\ conf \in PerConfigs
    /\ conf0 = conf
    /\ body_inputs \in SUBSET Regs
    /\ ppc = "start"
    /\ c = conf
    /\ ret = NoResult
    /\ err = "none"
    /\ diag = {}
    /\ log = <<>>

\* DFG(body, ..., DFGConfig(cfg)).outputs: the outputs of the configuration and,
\* under inputs_are_outputs, the live-ins of the body
DfgOutputs(inputs, cfg) ==
    cfg.outputs \cup (IF cfg.inputs_are_outputs THEN inputs ELSE {})

\* periodic, lines 199-203: the outputs generated for inputs_are_outputs
GenerateOutputs(cfg, inputs) ==
    IF cfg.inputs_are_outputs
    THEN [cfg EXCEPT !.outputs = DfgOutputs(inputs, cfg),
                     !.inputs_are_outputs = FALSE]
    ELSE cfg

\* linear raises when it is called with SW pipelining enabled
LinearRejects(cfg) == cfg.sw_pipelining.enabled

\* periodic up to the choice of the heuristic: the warning, the unrolling, the
\* generated outputs
PeriodicPrepare ==
    /\ ppc = "start"
    /\ diag' = IF conf.sw_pipelining.enabled /\ ~conf.inputs_are_outputs
               THEN diag \cup {"warn_inputs_are_outputs"} ELSE diag
    /\ conf' = GenerateOutputs(conf, body_inputs)
    /\ ppc' = IF ~conf'.sw_pipelining.enabled THEN "linear"
              ELSE IF conf'.sw_pipelining.halving_heuristic THEN "halving"
              ELSE "kernel"
    /\ UNCHANGED <<c, ret, err, log, conf0, body_inputs>>
    /\ PerFrame

\* a call that returns or raises
Call(ok, next) ==
    IF ok THEN ppc' = next /\ err' = err
          ELSE ppc' = "raised" /\ err' = "Exception"

\* SW pipelining disabled: forward to linear and return ([], core, [], 0)
PeriodicLinear ==
    /\ ppc = "linear"
    /\ \E ok \in BOOLEAN :
          /\ ok => ~LinearRejects(conf)
          /\ Call(ok, "returned")
    /\ UNCHANGED <<conf, c, ret, diag, log, conf0, body_inputs>>
    /\ PerFrame

\* the halving heuristic
PeriodicHalving ==
    /\ ppc = "halving"
    /\ \E ok \in BOOLEAN : Call(ok, "returned")
    /\ UNCHANGED <<conf, c, ret, diag, log, conf0, body_inputs>>
    /\ PerFrame

\* first step: the loop kernel, on a copy with inputs_are_outputs set
PeriodicKernel ==
    /\ ppc = "kernel"
    /\ c' = [conf EXCEPT !.inputs_are_outputs = TRUE]
    /\ \E ok \in BOOLEAN : Call(ok, "preamble")
    /\ UNCHANGED <<conf, ret, diag, log, conf0, body_inputs>>
    /\ PerFrame

\* second step: the preamble, on a copy with the kernel's dependencies as outputs
PeriodicPreamble ==
    /\ ppc = "preamble"
    /\ IF conf.sw_pipelining.optimize_preamble
       THEN /\ \E kernel_input_output \in SUBSET Regs :
                 c' = [conf EXCEPT !.outputs = kernel_input_output,
                                   !.sw_pipelining.enabled = FALSE]
            /\ \E ok \in BOOLEAN :
                  /\ ok => ~LinearRejects(c')
                  /\ Call(ok, "postamble")
       ELSE /\ ppc' = "postamble"
            /\ UNCHANGED <<c, err>>
    /\ UNCHANGED <<conf, ret, diag, log, conf0, body_inputs>>
    /\ PerFrame

\* second step: the postamble; then the return
PeriodicPostamble ==
    /\ ppc = "postamble"
    /\ IF conf.sw_pipelining.optimize_postamble
       THEN /\ c' = [conf EXCEPT !.sw_pipelining.enabled = FALSE]
            /\ \E ok \in BOOLEAN :
                  /\ ok => ~LinearRejects(c')
                  /\ Call(ok, "returned")
       ELSE /\ ppc' = "returned"
            /\ UNCHANGED <<c, err>>
    /\ UNCHANGED <<conf, ret, diag, log, conf0, body_inputs>>
    /\ PerFrame

PerNext ==
    \/ PeriodicPrepare
    \/ PeriodicLinear
    \/ PeriodicHalving
    \/ PeriodicKernel
    \/ PeriodicPreamble
    \/ PeriodicPostamble

\* C1: when periodic returns, conf.outputs, conf.inputs_are_outputs and the
\* sw_pipelining fields of the caller's Config have the values they had at the call.
C1_ConfigUnchanged ==
    ppc = "returned" =>
        /\ conf.outputs = conf0.outputs
        /\ conf.inputs_are_outputs = conf0.inputs_are_outputs
        /\ conf.sw_pipelining = conf0.sw_pipelining

-----------------------------------------------------------------------------
(***************************************************************************)
(* Heuristics._naive_reordering                                            *)
(*                                                                         *)
(* An instruction is known by its operand lists args_in, args_out and      *)
(* args_in_out, each a set of registers.                                   *)
(***************************************************************************)
MaxBlock == 3

Inst(i, o, io) == [args_in |-> i, args_out |-> o, args_in_out |-> io]

InstSet ==
    { Inst({}, {"r0"}, {}),          \* mov r0, #imm
      Inst({}, {"r1"}, {}),          \* mov r1, #imm
      Inst({"r0"}, {"r1"}, {}),      \* op  r1, r0
      Inst({"r1"}, {"r0"}, {}),      \* op  r0, r1
      Inst({"r0"}, {}, {"r1"}),      \* acc r1, r0
      Inst({}, {}, {"r0"}),          \* inc r0
      Inst({"r0", "r1"}, {}, {}) }   \* cmp r0, r1

Blocks == UNION { [1..n -> InstSet] : n \in 0..MaxBlock }

get_inputs(inst)  == inst.args_in \cup inst.args_in_out
get_outputs(inst) == inst.args_out \cup inst.args_in_out

\* DFG: the producer of register r as read by instruction i of block b, the
\* latest earlier instruction that writes r (0: r is a live-in)
Producer(b, i, r) ==
    LET S == { j \in 1..(i - 1) : r \in get_outputs(b[j]) }
    IN  IF S = {} THEN 0 ELSE MaxOf(S)

\* DFG node depth: the longest chain of producers that ends in the node
RECURSIVE Depth(_, _)
Depth(b, i) ==
    LET P == { Producer(b, i, r) : r \in get_inputs(b[i]) } \ {0}
        D == { Depth(b, j) : j \in P }
    IN  IF D = {} THEN 1 ELSE 1 + MaxOf(D)

NvInit ==
    /\ old \in Blocks
    /\ nbody = [n \in DOMAIN old |-> n]
    /\ insts = old
    /\ depths = [n \in DOMAIN old |-> Depth(old, n)]
    /\ ni = 1
    /\ npc = "run"

\* joint_prev_inputs[j], joint_prev_outputs[j]: what the instructions at
\* positions i .. j-1 read and write
joint_prev_inputs(j)  == UNION { get_inputs(insts[k])  : k \in ni..(j - 1) }
joint_prev_outputs(j) == UNION { get_outputs(insts[k]) : k \in ni..(j - 1) }

\* could_come_next(j)
could_come_next_raw_only(j) ==
    get_inputs(insts[j]) \cap joint_prev_outputs(j) = {}
could_come_next(j) ==
    /\ get_outputs(insts[j]) \cap joint_prev_inputs(j) = {}
    /\ get_inputs(insts[j]) \cap joint_prev_outputs(j) = {}

candidate_idxs == { j \in ni..Len(insts) : could_come_next(j) }

\* strategy "minimal_depth": the first candidate of the smallest depth
choice_idx ==
    LET m == MinOf({ depths[j] : j \in candidate_idxs })
    IN  MinOf({ j \in candidate_idxs : depths[j] = m })

\* move_entry_forward(lst, idx_from, idx_to), for idx_to <= idx_from
move_entry_dropped(lst, idx_from, idx_to) ==
    SubSeq(lst, 1, idx_from - 1) \o SubSeq(lst, idx_from + 1, Len(lst))
move_entry_forward(lst, idx_from, idx_to) ==
    SubSeq(lst, 1, idx_to - 1) \o <<lst[idx_from]>>
        \o SubSeq(lst, idx_to, idx_from - 1) \o SubSeq(lst, idx_from + 1, Len(lst))

\* one turn of the loop over i
NaiveStep ==
    /\ npc = "run"
    /\ ni <= Len(insts)
    /\ IF candidate_idxs = {}
       THEN /\ npc' = "raised"
            /\ UNCHANGED <<nbody, insts, depths, ni>>
       ELSE /\ nbody'  = move_entry_forward(nbody, choice_idx, ni)
            /\ insts'  = move_entry_forward(insts, choice_idx, ni)
            /\ depths' = move_entry_forward(depths, choice_idx, ni)
            /\ ni' = ni + 1
            /\ npc' = npc
    /\ UNCHANGED old
    /\ NvFrame

\* the loop is over: return body
NaiveReturn ==
    /\ npc = "run"
    /\ ni > Len(insts)
    /\ npc' = "returned"
    /\ UNCHANGED <<old, nbody, insts, depths, ni>>
    /\ NvFrame

NvNext ==
    \/ NaiveStep
    \/ NaiveReturn

\* the position in the block of the line that was line a of the input
PosOf(a) == CHOOSE n \in DOMAIN nbody : nbody[n] = a

Reads(a)  == old[a].args_in \cup old[a].args_in_out
Writes(a) == old[a].args_out \cup old[a].args_in_out

\* C8: two instructions of which the later reads a register the earlier writes,
\* or writes a register the earlier reads, keep their order.
C8_KeepsReadWriteOrder ==
    \A a, b \in DOMAIN old :
        (a < b /\ (Writes(a) \cap Reads(b) # {} \/ Reads(a) \cap Writes(b) # {}))
            => PosOf(a) < PosOf(b)

\* C8 witness: a returned block that was reordered and holds such a pair
C8_Witness ==
    /\ npc = "returned"
    /\ nbody # [n \in DOMAIN old |-> n]
    /\ \E a, b \in DOMAIN old : a < b /\ Writes(a) \cap Reads(b) # {}
    /\ \E a, b \in DOMAIN old : a < b /\ Reads(a) \cap Writes(b) # {}

\* C9: two instructions that write the same register keep their order, so the
\* last writer of every register in the returned block is the one of the input.
C9_KeepsWriteOrder ==
    npc = "returned" =>
        \A a, b \in DOMAIN old :
            (a < b /\ Writes(a) \cap Writes(b) # {}) => PosOf(a) < PosOf(b)

\* the sequence sq without its entry at position k
Without(sq, k) == SubSeq(sq, 1, k - 1) \o SubSeq(sq, k + 1, Len(sq))

\* C30: _naive_reordering always completes and returns a permutation of its
\* input: at every position the instruction that stands there is a candidate,
\* so the candidate set is not empty; each step moves one instruction to the
\* position and leaves the others in their order; the block has the length
\* and the lines of the input throughout (the lines are named by their
\* position in the input, the depth comment is not part of the name)
C30_NaivePermutation ==
    /\ [](/\ npc # "raised"
          /\ (npc = "run" /\ ni <= Len(insts)) => ni \in candidate_idxs
          /\ Len(nbody) = Len(old)
          /\ \A a \in DOMAIN old :
                Cardinality({ n \in DOMAIN nbody : nbody[n] = a }) = 1)
    /\ [][ ni' = ni + 1 =>
              \E j \in ni..Len(nbody) :
                  /\ nbody'[ni] = nbody[j]
                  /\ Without(nbody', ni) = Without(nbody, j) ]_vars
    /\ <>(npc = "returned")

\* C30 witness: a returned block of several lines in another order than the
\* input
C30_Witness ==
    /\ npc = "returned"
    /\ Len(old) >= 3
    /\ nbody # [n \in DOMAIN old |-> n]

-----------------------------------------------------------------------------
(***************************************************************************)
(* Heuristics.linear, _split, _split_inner                                 *)
(*                                                                         *)
(* A block is a sequence of lines; a line is an instruction, named by a    *)
(* number, with the trailing comment it carries.  A solver pass            *)
(* (optimize_binsearch) over a chunk returns or raises; its code is the    *)
(* chunk's lines and it reports a number of stalls.  Positions in the      *)
(* block are exact fractions; the factors offered are powers of two, for   *)
(* which the floating-point positions of the code are exact too.           *)
(***************************************************************************)
MaxBody        == 3
MaxRepeat      == 2
MaxChunkStalls == 1

Line(k) == [id |-> k, note |-> "none"]

\* AsmHelper.reduce_source: the lines without their comments, and no line that
\* is only a comment
reduce_source(blk) ==
    LET is_inst(x) == x.id # 0
        insts_only == SelectSeq(blk, is_inst)
    IN  [n \in DOMAIN insts_only |-> Line(insts_only[n].id)]

\* DFG(blk, ...).inputs: the live-in registers of the block blk when outs are
\* its outputs
DfgInputs(blk, outs) == { <<"live-in of", blk, outs>> }

FullRegion == <<<<0, 1>>, <<1, 1>>>>
NoStepsize == <<0, 1>>

LinConfigs ==
    { [DefaultConfig EXCEPT
          !.sw_pipelining.enabled = t[1],
          !.split_heuristic = t[2],
          !.split_heuristic_preprocess_naive_interleaving = t[3],
          !.split_heuristic_repeat = t[4],
          !.split_heuristic_factor = t[5],
          !.split_heuristic_visualize_stalls = t[6],
          !.split_heuristic_visualize_units = t[7],
          !.split_heuristic_random = t[8],
          !.split_heuristic_abort_cycle_at = t[9],
          !.split_heuristic_region = t[10],
          !.allow_renaming = t[11],
          !.split_heuristic_optimize_seam = t[12]] :
      t \in BOOLEAN \X BOOLEAN \X BOOLEAN \X (0..MaxRepeat) \X {1, 2}
            \X BOOLEAN \X BOOLEAN \X BOOLEAN \X {Nothing, 0}
            \X {FullRegion, <<<<0, 1>>, <<1, 2>>>>} \X BOOLEAN \X {0, 1} }

\* the blocks handed to linear: blocks of plain instructions, and one with a
\* trailing comment on its first instruction and a line that is only a comment
CommentedBody ==
    <<[id |-> 1, note |-> "comment"], [id |-> 0, note |-> "comment"], Line(2)>>
LinBodies == { [k \in 1..n |-> Line(k)] : n \in 0..MaxBody } \cup {CommentedBody}

LinInit ==
    /\ conf \in LinConfigs
    /\ lbody \in LinBodies
    /\ lpc = "start"
    /\ c = conf
    /\ ret = <<>>
    /\ err = "none"
    /\ diag = {}
    /\ log = <<>>
    /\ lpre = <<>> /\ lpost = <<>> /\ cur_body = <<>>
    /\ orig_conf = NoConfig
    /\ idx_lst = <<>>
    /\ in_dry = FALSE
    /\ passes_left = 0
    /\ stall_map = {}
    /\ naive_done = FALSE
    /\ solved_after_naive = 0

\* round(num / den), Python's rounding of a half to the even neighbour
Round(num, den) ==
    LET q == num \div den
        r == num % den
    IN  IF 2 * r < den THEN q
        ELSE IF 2 * r > den THEN q + 1
        ELSE IF q % 2 = 0 THEN q ELSE q + 1

\* _idxs_from_fractions, for one fraction
IdxFromFraction(f, blk) == Round(f[1] * Len(blk), f[2])

\* make_idx_list_consecutive, the while loop: positions count units of
\* 1 / `one`; the windows are pairs of positions
RECURSIVE ConsecutiveWindows(_, _, _, _, _)
ConsecutiveWindows(cur_start, cur_end, chunk_len, increment, one) ==
    IF cur_end >= one THEN <<>>
    ELSE LET e == IF cur_start + chunk_len > one THEN one ELSE cur_start + chunk_len
         IN  <<<<cur_start, e>>>> \o
             ConsecutiveWindows(cur_start + increment, e, chunk_len, increment, one)

\* make_idx_list_consecutive(factor, increment) over the block blk
make_idx_list_consecutive(factor, increment, blk) ==
    LET one == factor * increment[2]
        w   == ConsecutiveWindows(0, 0, increment[2], increment[1] * factor, one)
        idx == [n \in DOMAIN w |-> <<IdxFromFraction(<<w[n][1], one>>, blk),
                                     IdxFromFraction(<<w[n][2], one>>, blk)>>]
        not_empty(x) == x[1] # x[2]
    IN  SelectSeq(idx, not_empty)

Reverse(sq) == [n \in DOMAIN sq |-> sq[Len(sq) + 1 - n]]

\* the error linear raises when SW pipelining is enabled
LinearError == "Exception: Linear heuristic should only be called with SW pipelining disabled"

\* linear: the check of sw_pipelining.enabled, then the choice between the core
\* optimisation and the split heuristic
LinearEntryUnchecked(cfg) == IF ~cfg.split_heuristic THEN "binsearch" ELSE "split"
LinearEntry(cfg) ==
    IF LinearRejects(cfg) THEN "raised"
    ELSE IF ~cfg.split_heuristic THEN "binsearch" ELSE "split"

Linear ==
    /\ lpc = "start"
    /\ lpc' = LinearEntry(conf)
    /\ err' = IF lpc' = "raised" THEN LinearError ELSE err
    /\ UNCHANGED <<conf, c, ret, diag, log, lbody, lpre, lpost, cur_body, orig_conf,
                   idx_lst, in_dry, passes_left, stall_map, naive_done, solved_after_naive>>
    /\ LinFrame

\* a solver pass (optimize_binsearch) made by linear or _split_inner, and
\* whether it succeeded
SolverPass(kind, cfg, start_idx, end_idx, chunk, post_lines, ok) ==
    [kind |-> kind, config |-> cfg, start_idx |-> start_idx, end_idx |-> end_idx,
     chunk |-> chunk, post |-> post_lines, dry |-> in_dry, pass |-> passes_left,
     success |-> ok]

\* linear without the split heuristic: optimize_binsearch on the whole body
LinearBinsearch ==
    /\ lpc = "binsearch"
    /\ \E ok \in BOOLEAN :
          /\ log' = Append(log, SolverPass("binsearch", conf, 0, Len(lbody), lbody,
                                           <<>>, ok))
          /\ IF ok THEN lpc' = "returned" /\ ret' = lbody /\ err' = err
                   ELSE lpc' = "raised" /\ ret' = ret /\ err' = "Exception"
    /\ UNCHANGED <<conf, c, diag, lbody, lpre, lpost, cur_body, orig_conf,
                   idx_lst, in_dry, passes_left, stall_map, naive_done, solved_after_naive>>
    /\ LinFrame

\* _split up to the call of _split_inner: the copy of conf and the region
Split ==
    /\ lpc = "split"
    /\ IF conf.split_heuristic_region = FullRegion
       THEN /\ c' = conf
            /\ lpre' = <<>> /\ lpost' = <<>>
            /\ cur_body' = reduce_source(lbody)
       ELSE LET blk       == reduce_source(lbody)
                start_idx == IdxFromFraction(conf.split_heuristic_region[1], blk)
                end_idx   == IdxFromFraction(conf.split_heuristic_region[2], blk)
            IN  /\ lpre' = SubSeq(blk, 1, start_idx)
                /\ cur_body' = SubSeq(blk, start_idx + 1, end_idx)
                /\ lpost' = SubSeq(blk, end_idx + 1, Len(blk))
                /\ c' = [conf EXCEPT !.outputs = DfgInputs(lpost', conf.outputs),
                                     !.inputs_are_outputs = FALSE]
    /\ lpc' = "inner"
    /\ UNCHANGED <<conf, ret, err, diag, log, lbody, orig_conf, idx_lst, in_dry,
                   passes_left, stall_map, naive_done, solved_after_naive>>
    /\ LinFrame

\* _split_inner up to the dry pass: the empty block is returned as it is; the
\* naive reordering; then, if there are passes to make, the configuration and
\* the windows of the dry pass
SplitInnerEnter ==
    /\ lpc = "inner"
    /\ IF Len(cur_body) = 0
       THEN /\ lpc' = "inner_done"
            /\ UNCHANGED <<c, orig_conf, idx_lst, in_dry, passes_left, naive_done>>
       ELSE /\ naive_done' = c.split_heuristic_preprocess_naive_interleaving
            /\ passes_left' = c.split_heuristic_repeat
            /\ IF c.split_heuristic_repeat > 0
               THEN /\ orig_conf' = c
                    /\ c' = [c EXCEPT !.allow_reordering = FALSE,
                                      !.allow_renaming = FALSE]
                    /\ idx_lst' = make_idx_list_consecutive(
                                      c.split_heuristic_factor,
                                      <<1, c.split_heuristic_factor>>, cur_body)
                    /\ in_dry' = TRUE
                    /\ lpc' = "chunks"
               ELSE /\ lpc' = "pass"
                    /\ UNCHANGED <<c, orig_conf, idx_lst, in_dry>>
    /\ UNCHANGED <<conf, ret, err, diag, log, lbody, lpre, lpost, cur_body, stall_map,
                   solved_after_naive>>
    /\ LinFrame

\* optimize_chunks_many: the test that ends the pass after a chunk
AbortsAtThreshold(abort_stall_threshold, cur_stalls) ==
    abort_stall_threshold # Nothing /\ cur_stalls >= abort_stall_threshold
Aborts(abort_stall_threshold, cur_stalls) ==
    abort_stall_threshold # Nothing /\ cur_stalls > abort_stall_threshold

\* optimize_chunk, the three parts of the block: the window start_idx..end_idx
\* is widened by up to seam lines on both sides when
\* split_heuristic_optimize_seam is set; pre and post are what is left
ChunkPartsSuffixInPost(blk, start_idx, end_idx, seam) ==
    LET prefix_len == IF seam = 0 THEN 0
                      ELSE IF start_idx < seam THEN start_idx ELSE seam
        suffix_len == IF seam = 0 THEN 0
                      ELSE IF Len(blk) - end_idx < seam
                           THEN Len(blk) - end_idx ELSE seam
    IN  [prefix_len |-> prefix_len,
         suffix_len |-> suffix_len,
         pre  |-> SubSeq(blk, 1, start_idx - prefix_len),
         body |-> SubSeq(blk, start_idx - prefix_len + 1, end_idx + suffix_len),
         post |-> SubSeq(blk, end_idx + 1, Len(blk))]
ChunkParts(blk, start_idx, end_idx, seam) ==
    LET prefix_len == IF seam = 0 THEN 0
                      ELSE IF start_idx < seam THEN start_idx ELSE seam
        suffix_len == IF seam = 0 THEN 0
                      ELSE IF Len(blk) - end_idx < seam
                           THEN Len(blk) - end_idx ELSE seam
    IN  [prefix_len |-> prefix_len,
         suffix_len |-> suffix_len,
         pre  |-> SubSeq(blk, 1, start_idx - prefix_len),
         body |-> SubSeq(blk, start_idx - prefix_len + 1, end_idx + suffix_len),
         post |-> SubSeq(blk, end_idx + suffix_len + 1, Len(blk))]

\* optimize_chunk: new_body = cur_pre + AsmHelper.reduce_source(result.code) + cur_post
NewBody(cur_pre, code, cur_post) == cur_pre \o reduce_source(code) \o cur_post

\* optimize_chunks_many, one turn: optimize_chunk on the next window, then the
\* check of the abort threshold (the dry pass has none)
OptimizeChunk ==
    /\ lpc = "chunks"
    /\ idx_lst # <<>>
    /\ LET start_idx  == idx_lst[1][1]
           end_idx    == idx_lst[1][2]
           parts      == ChunkParts(cur_body, start_idx, end_idx,
                                    c.split_heuristic_optimize_seam)
           prefix_len == parts.prefix_len
           suffix_len == parts.suffix_len
           chunk    == parts.body
           cur_post == parts.post
           cfg == [c EXCEPT !.rename_inputs = "static",
                            !.rename_outputs = "static",
                            !.inputs_are_outputs = FALSE,
                            !.outputs = DfgInputs(cur_post, c.outputs)]
           threshold == IF in_dry THEN Nothing ELSE c.split_heuristic_abort_cycle_at
       IN  \E ok \in BOOLEAN : \E cur_stalls \in 0..MaxChunkStalls :
              /\ log' = Append(log, SolverPass("chunk", cfg, start_idx, end_idx,
                                               chunk, cur_post, ok))
              /\ IF ok
                 THEN /\ cur_stalls <= Len(chunk)
                      /\ stall_map' =
                            { i \in stall_map : i < start_idx - prefix_len
                                             \/ i >= end_idx + suffix_len }
                            \cup { i + start_idx - prefix_len : i \in 0..(cur_stalls - 1) }
                      /\ solved_after_naive' = solved_after_naive + 1
                      /\ idx_lst' = IF Aborts(threshold, cur_stalls)
                                    THEN <<>> ELSE Tail(idx_lst)
                      /\ lpc' = IF idx_lst' = <<>> THEN "pass" ELSE "chunks"
                      /\ err' = err
                      /\ cur_body' = NewBody(parts.pre, chunk, cur_post)
                 ELSE /\ cur_stalls = 0
                      /\ lpc' = "raised"
                      /\ err' = "Exception"
                      /\ UNCHANGED <<stall_map, solved_after_naive, idx_lst, cur_body>>
    /\ UNCHANGED <<conf, c, ret, diag, lbody, lpre, lpost, orig_conf,
                   in_dry, passes_left, naive_done>>
    /\ LinFrame

\* conf = orig_conf.copy() at the end of the dry pass
AfterDryPassKept(dry, orig, cur) == cur
AfterDryPass(dry, orig, cur) == IF dry THEN orig ELSE cur

\* the end of the dry pass (conf = orig_conf.copy(), the step of the real
\* passes), then the head of the loop over the passes: the windows of the next
\* pass, or the end of the loop
SplitPass ==
    /\ lpc = "pass"
    /\ LET cfg == AfterDryPass(in_dry, orig_conf, c)
           factor == cfg.split_heuristic_factor
           increment == IF cfg.split_heuristic_stepsize = NoStepsize
                        THEN <<1, 2 * factor>> ELSE cfg.split_heuristic_stepsize
           len_total == Len(cur_body)
           len_chunk == Round(len_total, factor)
       IN  /\ c' = cfg
           /\ in_dry' = FALSE
           /\ IF passes_left = 0
              THEN /\ lpc' = "annotate"
                   /\ UNCHANGED <<idx_lst, passes_left, err>>
              ELSE /\ passes_left' = passes_left - 1
                   /\ IF ~cfg.split_heuristic_random
                      THEN /\ idx_lst' =
                                 IF cfg.split_heuristic_bottom_to_top
                                 THEN Reverse(make_idx_list_consecutive(factor, increment, cur_body))
                                 ELSE make_idx_list_consecutive(factor, increment, cur_body)
                           /\ lpc' = IF idx_lst' = <<>> THEN "pass" ELSE "chunks"
                           /\ err' = err
                      ELSE IF cfg.split_heuristic_chunks
                      THEN /\ lpc' = "raised"
                           /\ err' = "NameError"
                           /\ UNCHANGED idx_lst
                      ELSE IF len_total - len_chunk - 1 < 0
                      THEN /\ lpc' = "raised"
                           /\ err' = "ValueError"
                           /\ UNCHANGED idx_lst
                      ELSE /\ \E start_idx \in 0..(len_total - len_chunk - 1) :
                                 idx_lst' = << <<start_idx, start_idx + len_chunk>> >>
                           /\ lpc' = "chunks"
                           /\ err' = err
    /\ UNCHANGED <<conf, ret, diag, log, lbody, lpre, lpost, cur_body, orig_conf,
                   stall_map, naive_done, solved_after_naive>>
    /\ LinFrame

\* after the passes: the stall annotations, then the visualisation of the stalls
\* (a solver pass with reordering and renaming disabled, its code put between
\* two comment lines)
SplitVisualizeStalls ==
    /\ lpc = "annotate"
    /\ LET annotated == [n \in DOMAIN cur_body |->
                            IF (n - 1) \in stall_map
                            THEN [cur_body[n] EXCEPT !.note = "gap(s) to follow"]
                            ELSE cur_body[n]]
       IN  IF \E i \in stall_map : i >= Len(cur_body)
           THEN /\ lpc' = "raised"
                /\ err' = "IndexError"
                /\ diag' = IF \E i \in stall_map : i > Len(cur_body)
                           THEN diag \cup {"Something is wrong"} ELSE diag
                /\ UNCHANGED <<log, solved_after_naive, cur_body>>
           ELSE IF c.split_heuristic_visualize_stalls
           THEN LET cfg == [c EXCEPT !.allow_reordering = FALSE,
                                     !.allow_renaming = FALSE,
                                     !.visualize_reordering = FALSE]
                    blk == reduce_source(annotated)
                IN  /\ \E ok \in BOOLEAN :
                          /\ log' = Append(log, SolverPass("visualize_stalls", cfg, 0,
                                                           Len(blk), blk, <<>>, ok))
                          /\ IF ok
                             THEN /\ lpc' = "visualize_units"
                                  /\ solved_after_naive' = solved_after_naive + 1
                                  /\ cur_body' =
                                        <<[id |-> 0, note |-> "Start split region"]>>
                                        \o blk \o
                                        <<[id |-> 0, note |-> "End split region"]>>
                                  /\ err' = err
                             ELSE /\ lpc' = "raised"
                                  /\ err' = "Exception"
                                  /\ UNCHANGED <<solved_after_naive, cur_body>>
                    /\ diag' = diag
           ELSE /\ lpc' = "visualize_units"
                /\ cur_body' = annotated
                /\ UNCHANGED <<err, diag, log, solved_after_naive>>
    /\ UNCHANGED <<conf, c, ret, lbody, lpre, lpost, orig_conf, idx_lst,
                   in_dry, passes_left, stall_map, naive_done>>
    /\ LinFrame

\* the visualisation of the functional units reads `c`, which is bound only by
\* the visualisation of the stalls, and then adds a line number to a string
SplitVisualizeUnits ==
    /\ lpc = "visualize_units"
    /\ IF c.split_heuristic_visualize_units
       THEN /\ lpc' = "raised"
            /\ err' = IF c.split_heuristic_visualize_stalls
                      THEN "TypeError" ELSE "UnboundLocalError"
       ELSE /\ lpc' = "inner_done"
            /\ err' = err
    /\ UNCHANGED <<conf, c, ret, diag, log, lbody, lpre, lpost, cur_body, orig_conf,
                   idx_lst, in_dry, passes_left, stall_map, naive_done, solved_after_naive>>
    /\ LinFrame

\* _split_inner returns cur_body; _split returns pre + cur + post, and linear
\* returns that
SplitResultRegionOnly(head_lines, cur, tail_lines) == cur
SplitResult(head_lines, cur, tail_lines) == head_lines \o cur \o tail_lines

SplitReturn ==
    /\ lpc = "inner_done"
    /\ ret' = SplitResult(lpre, cur_body, lpost)
    /\ lpc' = "returned"
    /\ UNCHANGED <<conf, c, err, diag, log, lbody, lpre, lpost, cur_body, orig_conf,
                   idx_lst, in_dry, passes_left, stall_map, naive_done, solved_after_naive>>
    /\ LinFrame

LinNext ==
    \/ Linear
    \/ LinearBinsearch
    \/ Split
    \/ SplitInnerEnter
    \/ OptimizeChunk
    \/ SplitPass
    \/ SplitVisualizeStalls
    \/ SplitVisualizeUnits
    \/ SplitReturn

\* C7: linear called with SW pipelining enabled fails with its error before any
\* solver call and before the split heuristic is entered; with pipelining
\* disabled it never raises that error.
C7_LinearRejectsPipelining ==
    /\ (conf.sw_pipelining.enabled /\ lpc # "start") =>
           lpc = "raised" /\ err = LinearError /\ log = <<>>
    /\ ~conf.sw_pipelining.enabled => err # LinearError

\* C7 witness: the call with pipelining and the split heuristic enabled has failed
C7_Witness ==
    /\ conf.sw_pipelining.enabled
    /\ conf.split_heuristic
    /\ lpc = "raised"
    /\ err = LinearError

\* the solver calls made for chunks, in order
ChunkCalls == SelectSeq(log, LAMBDA e : e.kind = "chunk")

\* C29: in random mode, without explicit chunks, every real pass selects
\* without raising exactly one window [s, e) with 0 <= s < e <= len(block) and
\* e - s = round(len(block) / factor), for every block of at least one line
\* and every factor >= 1
C29_RandomWindow ==
    (/\ conf.split_heuristic
     /\ conf.split_heuristic_random
     /\ ~conf.split_heuristic_chunks) =>
        /\ err # "ValueError"
        /\ (lpc = "chunks" /\ ~in_dry) =>
              /\ Len(idx_lst) = 1
              /\ 0 <= idx_lst[1][1]
              /\ idx_lst[1][1] < idx_lst[1][2]
              /\ idx_lst[1][2] <= Len(cur_body)
              /\ idx_lst[1][2] - idx_lst[1][1] =
                    Round(Len(cur_body), conf.split_heuristic_factor)

C23_ChunkCallStaticAndPartition ==
    [][ (Len(log') = Len(log) + 1 /\ log'[Len(log')].kind = "chunk") =>
            LET e    == log'[Len(log')]
                seam == c.split_heuristic_optimize_seam
                lo   == IF e.start_idx - seam < 0 THEN 0 ELSE e.start_idx - seam
                hi   == IF e.end_idx + seam > Len(cur_body)
                        THEN Len(cur_body) ELSE e.end_idx + seam
                before == SubSeq(cur_body, 1, lo)
                after  == SubSeq(cur_body, hi + 1, Len(cur_body))
            IN  /\ e.config.rename_inputs = "static"
                /\ e.config.rename_outputs = "static"
                /\ ~e.config.inputs_are_outputs
                /\ e.config.outputs = DfgInputs(after, c.outputs)
                /\ e.chunk = SubSeq(cur_body, lo + 1, hi)
                /\ before \o e.chunk \o after = cur_body
                /\ e.success => cur_body' = before \o reduce_source(e.chunk) \o after ]_vars
C23_Witness ==
    /\ c.split_heuristic_optimize_seam = 1
    /\ \E m, n \in DOMAIN log :
          /\ log[m].kind = "chunk" /\ log[m].dry /\ log[m].success
          /\ log[n].kind = "chunk" /\ ~log[n].dry /\ log[n].success
          /\ Len(log[n].chunk) > log[n].end_idx - log[n].start_idx + 1

\* C13: every chunk of the dry pass is solved with allow_reordering and
\* allow_renaming false, the dry pass comes before every real pass, and every
\* chunk of a real pass is solved with the caller's values of the two flags.
C13_DryPassOverrides ==
    \A n \in DOMAIN ChunkCalls :
        LET e == ChunkCalls[n]
        IN  IF e.dry
            THEN /\ ~e.config.allow_reordering
                 /\ ~e.config.allow_renaming
                 /\ \A m \in 1..n : ChunkCalls[m].dry
            ELSE /\ e.config.allow_reordering = conf.allow_reordering
                 /\ e.config.allow_renaming = conf.allow_renaming
                 /\ ChunkCalls[1].dry

\* C13 witness: a real pass has solved a chunk after the dry pass, for a caller
\* that allows renaming
C13_Witness ==
    /\ conf.allow_renaming
    /\ \E n \in DOMAIN ChunkCalls : ~ChunkCalls[n].dry /\ ChunkCalls[n].success
    /\ lpc = "returned"

\* the chunk calls of the real pass entered with p passes still to start
PassCalls(p) == SelectSeq(ChunkCalls, LAMBDA e : ~e.dry /\ e.pass = p)

\* the windows of a real pass over consecutive windows
PassWindows ==
    make_idx_list_consecutive(conf.split_heuristic_factor,
        <<1, 2 * conf.split_heuristic_factor>>, cur_body)

\* the stall positions the chunk just solved has left in its range, the window
\* widened by the seam
NewStalls ==
    LET seam == c.split_heuristic_optimize_seam
        lo   == IF idx_lst[1][1] - seam < 0 THEN 0 ELSE idx_lst[1][1] - seam
        hi   == IF idx_lst[1][2] + seam > Len(cur_body)
                THEN Len(cur_body) ELSE idx_lst[1][2] + seam
    IN  { i \in stall_map' : lo <= i /\ i < hi }

\* a chunk of a real pass has been solved in this step
RealChunkSolved == lpc = "chunks" /\ ~in_dry /\ lpc' # "raised"

\* a real pass over consecutive windows is started in this step
RealPassStarted ==
    lpc = "pass" /\ passes_left' = passes_left - 1 /\ ~conf.split_heuristic_random

\* C14: with the threshold T set, a chunk of a real pass that yields more than T
\* stall positions ends its pass, its own result kept; a chunk with at most T
\* does not, the pass goes on with the next window; and every real pass starts
\* from its first window.
C14_AbortThreshold ==
    [][ /\ RealChunkSolved =>
             LET T == conf.split_heuristic_abort_cycle_at
                 k == Cardinality(NewStalls)
             IN  /\ (T # Nothing /\ k > T) => (idx_lst' = <<>> /\ lpc' = "pass")
                 /\ (T = Nothing \/ k <= T) => idx_lst' = Tail(idx_lst)
                 /\ idx_lst' # <<>> => lpc' = "chunks"
                 /\ log'[Len(log')].success
                 /\ passes_left' = passes_left
        /\ RealPassStarted => idx_lst' = PassWindows
      ]_vars

\* C14 witness: a pass of several windows was ended by its first chunk and the
\* pass after it has started from the first window
C14_Witness ==
    \E p \in 1..MaxRepeat :
        /\ conf.split_heuristic_abort_cycle_at # Nothing
        /\ ~conf.split_heuristic_random
        /\ Len(PassWindows) >= 2
        /\ Len(PassCalls(p)) = 1
        /\ PassCalls(p)[1].success
        /\ passes_left = p - 1
        /\ lpc = "chunks"
        /\ idx_lst = PassWindows

\* C10: a block that was naively reordered has gone through a solver pass when
\* the split heuristic returns it.
C10_NaiveNeverFinal ==
    (lpc = "returned" /\ naive_done) => solved_after_naive >= 1

-----------------------------------------------------------------------------
(***************************************************************************)
(* Heuristics._periodic_halving                                            *)
(*                                                                         *)
(* linear and optimize_binsearch return or raise; the code they return is  *)
(* the lines they were given in some order, and linear may have annotated  *)
(* lines with comments.                                                    *)
(***************************************************************************)
MaxKernel == 3

HalConfigs ==
    { [DefaultConfig EXCEPT
          !.sw_pipelining.enabled = TRUE,
          !.sw_pipelining.halving_heuristic = TRUE,
          !.sw_pipelining.halving_heuristic_periodic = t[1],
          !.inputs_are_outputs = t[2]] :
      t \in BOOLEAN \X BOOLEAN }

HalInit ==
    /\ conf \in HalConfigs
    /\ \E n \in 0..MaxKernel : hbody = [k \in 1..n |-> Line(k)]
    /\ hpc = "start"
    /\ c = NoConfig
    /\ ret = NoResult
    /\ err = "none"
    /\ diag = {}
    /\ log = <<>>
    /\ lin_kernel = <<>>
    /\ kernel = <<>>
    /\ preamble = <<>>
    /\ postamble = <<>>
    /\ num_exceptional_iterations = 0

\* the orders a solver may return the lines of blk in
Reorderings(blk) ==
    LET idx == DOMAIN blk
        P == { f \in [idx -> idx] : \A a, b \in idx : a # b => f[a] # f[b] }
    IN  { [n \in idx |-> blk[f[n]]] : f \in P }

\* what linear may return for blk: a reordering, bare or with the lines at the
\* odd positions annotated
LinearResults(blk) ==
    { [n \in DOMAIN r |-> IF n \in A THEN [r[n] EXCEPT !.note = "gap(s) to follow"]
                          ELSE r[n]] :
      r \in Reorderings(blk), A \in {{}, { n \in DOMAIN blk : n % 2 = 1 }} }

\* kernel_lenh = kernel_len // 2
kernel_lenh_up(k) == (Len(k) + 1) \div 2
kernel_lenh(k) == Len(k) \div 2

kernel_low(k)  == SubSeq(k, 1, kernel_lenh(k))
kernel_high(k) == SubSeq(k, kernel_lenh(k) + 1, Len(k))

\* kernel = kernel_high.copy() + kernel_low.copy()
Unrotated(k) == kernel_low(k) \o kernel_high(k)
Rotated(k) == kernel_high(k) \o kernel_low(k)

HalCall(kind, cfg, code) == [kind |-> kind, config |-> cfg, code |-> code]

\* first step: the kernel dependencies, then linear on the body without SW
\* pipelining
HalvingLinear ==
    /\ hpc = "start"
    /\ LET kernel_deps == DfgInputs(hbody, conf.outputs)
           cfg == [conf EXCEPT !.sw_pipelining.enabled = FALSE,
                               !.inputs_are_outputs = TRUE,
                               !.outputs = conf.outputs \cup kernel_deps]
       IN  /\ c' = cfg
           /\ log' = Append(log, HalCall("linear", cfg, hbody))
           /\ IF LinearRejects(cfg)
              THEN /\ hpc' = "raised" /\ err' = LinearError
                   /\ UNCHANGED lin_kernel
              ELSE \E ok \in BOOLEAN :
                     IF ok
                     THEN /\ lin_kernel' \in LinearResults(hbody)
                          /\ hpc' = "halve" /\ err' = err
                     ELSE /\ hpc' = "raised" /\ err' = "Exception"
                          /\ UNCHANGED lin_kernel
    /\ UNCHANGED <<conf, ret, diag, hbody, kernel, preamble, postamble,
                   num_exceptional_iterations>>
    /\ HalFrame

\* the two halves and their rotation
HalvingSplit ==
    /\ hpc = "halve"
    /\ LET k == reduce_source(lin_kernel)
       IN  /\ kernel' = Rotated(k)
           /\ preamble' = kernel_low(k)
           /\ postamble' = kernel_high(k)
    /\ hpc' = "second"
    /\ UNCHANGED <<conf, c, ret, err, diag, log, hbody, lin_kernel,
                   num_exceptional_iterations>>
    /\ HalFrame

\* second step: the rotation is optimised, with the seam between iterations
\* (optimize_binsearch) or as a linear snippet (linear); then the return
HalvingSecond ==
    /\ hpc = "second"
    /\ LET kernel_deps == DfgInputs(kernel, conf.outputs)
           cfg == IF conf.sw_pipelining.halving_heuristic_periodic
                  THEN [conf EXCEPT !.inputs_are_outputs = TRUE,
                                    !.sw_pipelining.minimize_overlapping = FALSE,
                                    !.sw_pipelining.enabled = TRUE,
                                    !.sw_pipelining.allow_pre = FALSE,
                                    !.sw_pipelining.allow_post = FALSE]
                  ELSE [conf EXCEPT !.outputs = kernel_deps,
                                    !.sw_pipelining.enabled = FALSE]
           kind == IF conf.sw_pipelining.halving_heuristic_periodic
                   THEN "optimize_binsearch" ELSE "linear"
       IN  /\ c' = cfg
           /\ log' = Append(log, HalCall(kind, cfg, kernel))
           /\ IF kind = "linear" /\ LinearRejects(cfg)
              THEN /\ hpc' = "raised" /\ err' = LinearError
                   /\ UNCHANGED <<kernel, num_exceptional_iterations, ret>>
              ELSE \E ok \in BOOLEAN :
                     IF ok
                     THEN /\ kernel' \in (IF kind = "linear" THEN LinearResults(kernel)
                                          ELSE Reorderings(kernel))
                          /\ num_exceptional_iterations' = 1
                          /\ ret' = <<preamble, kernel', postamble, 1>>
                          /\ hpc' = "returned" /\ err' = err
                     ELSE /\ hpc' = "raised" /\ err' = "Exception"
                          /\ UNCHANGED <<kernel, num_exceptional_iterations, ret>>
    /\ UNCHANGED <<conf, diag, hbody, lin_kernel, preamble, postamble>>
    /\ HalFrame

HalNext ==
    \/ HalvingLinear
    \/ HalvingSplit
    \/ HalvingSecond

\* C11: the halving heuristic returns (preamble, kernel, postamble, 1); the
\* preamble is the first floor(n/2) instructions of the linearly optimised
\* kernel, the postamble the other n - floor(n/2), and the two together are that
\* kernel.
C11_HalvesOfKernel ==
    hpc = "returned" =>
        LET k == reduce_source(lin_kernel)
            n == Len(k)
        IN  /\ ret[1] = SubSeq(k, 1, n \div 2)
            /\ ret[3] = SubSeq(k, (n \div 2) + 1, n)
            /\ Len(ret[3]) = n - (n \div 2)
            /\ ret[1] \o ret[3] = k
            /\ ret[4] = 1
            /\ n <= 1 => ret[1] = <<>>

\* C11 witness: a kernel of odd length, reordered by linear, has been halved
C11_Witness ==
    /\ hpc = "returned"
    /\ Len(lin_kernel) = 3
    /\ reduce_source(lin_kernel) # hbody
    /\ Len(ret[1]) = 1 /\ Len(ret[3]) = 2

\* C12: the code handed to the second optimisation is the second half followed
\* by the first half of the linearly optimised kernel, every instruction of that
\* kernel once, and the first optimisation has returned before it is formed.
C12_SecondGetsRotation ==
    \A n \in DOMAIN log :
        n >= 2 =>
            LET k == reduce_source(lin_kernel)
                h == Len(k) \div 2
            IN  /\ n = 2
                /\ log[1].kind = "linear"
                /\ ~log[1].config.sw_pipelining.enabled
                /\ hpc \in {"returned", "raised"}
                /\ Len(k) = Len(hbody)
                /\ log[n].code = SubSeq(k, h + 1, Len(k)) \o SubSeq(k, 1, h)
                /\ \A x \in DOMAIN k :
                       Cardinality({ y \in DOMAIN log[n].code : log[n].code[y] = k[x] }) = 1
                /\ Len(log[n].code) = Len(k)

\* C12 witness: a rotation that differs from the kernel has been handed over
C12_Witness ==
    /\ Len(log) = 2
    /\ Len(lin_kernel) = 3
    /\ log[2].code # reduce_source(lin_kernel)

-----------------------------------------------------------------------------
(***************************************************************************)
(* Instruction.parser                                                      *)
(*                                                                         *)
(* A line is a mnemonic followed by comma-separated operands.  An operand  *)
(* is known by its shape:                                                  *)
(*   "x"     a 64-bit general purpose register      x7                     *)
(*   "w"     a 32-bit general purpose register      w7                     *)
(*   "q"     a vector register without datatype     v7                     *)
(*   "v"     a vector register with datatype        v7.4S                  *)
(*   "imm"   an immediate                           #16                    *)
(*   "addr"  an address                             [x1]                   *)
(*   "grp2"  a group of two vectors                 {v0.4S,v1.4S}          *)
(*   "grp4"  a group of four vectors                {v0.4S,v1.4S,v2.4S,v3.4S} *)
(* The registry is a part of the variants of the target, in the order of   *)
(* Instruction.__subclasses__() + AArch64Instruction.__subclasses__().     *)
(***************************************************************************)
MaxOps == 3

OperandKinds == {"x", "w", "q", "v", "imm", "addr", "grp2", "grp4"}

Mnemonics == {"nop", "add", "mov", "ldr", "st4", "ld4", "ld2", "stack_vld2_lane", "foo"}

NoLine == [mn |-> "none", ops |-> <<>>]

OpSeqs(n) == UNION { [1..k -> OperandKinds] : k \in 0..n }

\* stack_vld2_lane takes six operands
LaneLines ==
    { [mn |-> "stack_vld2_lane", ops |-> <<"q", "q", "x", "x", lane, imm>>] :
          lane \in OperandKinds, imm \in OperandKinds }

Lines == { [mn |-> m, ops |-> o] : m \in Mnemonics, o \in OpSeqs(MaxOps) } \cup LaneLines

Registry ==
    << "stack_vld2_lane", "nop", "add_shifted", "mov_imm", "x_ldr", "vstr", "vldr",
       "st4", "ld4", "ld2",
       "vadd", "add", "add2", "ldr_const", "mov" >>

\* the operand matches \w+
IsWord(k) == k \in {"x", "w", "q"}

\* the operand matches (\w|\s|#|=|,)+, the pattern of <imm>
IsImmText(k) == k \in {"x", "w", "q", "imm"}

\* the operands i.. of the line exist and the first n of them satisfy P
HasOps(ops, i, kinds) ==
    /\ Len(ops) >= i + Len(kinds) - 1
    /\ \A j \in DOMAIN kinds : ops[i + j - 1] = kinds[j]

WordsAt(ops, i, n) ==
    /\ Len(ops) >= i + n - 1
    /\ \A j \in i..(i + n - 1) : IsWord(ops[j])

\* The variant's parse accepts the line; otherwise it raises
\* Instruction.ParsingException.  The patterns of the variants written by
\* hand are matched against the start of the line (re.match), the patterns of
\* the AArch64Instruction variants against the whole line (\Z).
Accepts(v, ln) ==
    LET ops == ln.ops
    IN  CASE v = "stack_vld2_lane" ->
                 ln.mn = "stack_vld2_lane" /\ WordsAt(ops, 1, 4) /\ Len(ops) >= 6
          [] v = "nop" -> ln.mn = "nop"
          [] v = "add_shifted" ->
                 ln.mn = "add" /\ WordsAt(ops, 1, 2) /\ HasOps(ops, 3, <<"imm">>)
          [] v = "mov_imm" ->
                 ln.mn = "mov" /\ WordsAt(ops, 1, 1) /\ HasOps(ops, 2, <<"imm">>)
          [] v = "x_ldr" ->
                 ln.mn = "ldr" /\ WordsAt(ops, 1, 1) /\ HasOps(ops, 2, <<"addr">>)
          [] v = "vstr" -> FALSE
          [] v = "vldr" ->
                 ln.mn = "ldr" /\ WordsAt(ops, 1, 1) /\ HasOps(ops, 2, <<"addr">>)
          [] v = "st4" -> ln.mn = "st4" /\ HasOps(ops, 1, <<"grp4", "addr", "imm">>)
          [] v = "ld4" -> ln.mn = "ld4" /\ HasOps(ops, 1, <<"grp4", "addr">>)
          [] v = "ld2" -> ln.mn = "ld2" /\ HasOps(ops, 1, <<"grp2", "addr", "imm">>)
          [] v = "vadd" -> ln.mn = "add" /\ ops = <<"v", "v", "v">>
          [] v = "add" -> ln.mn = "add" /\ ops = <<"x", "x", "x">>
          [] v = "add2" ->
                 /\ ln.mn = "add" /\ HasOps(ops, 1, <<"x", "x", "x">>) /\ Len(ops) >= 4
                 /\ \A j \in 4..Len(ops) : IsImmText(ops[j])
          [] v = "ldr_const" ->
                 /\ ln.mn = "ldr" /\ HasOps(ops, 1, <<"x">>) /\ Len(ops) >= 2
                 /\ \A j \in 2..Len(ops) : IsImmText(ops[j])
          [] v = "mov" -> ln.mn = "mov" /\ ops = <<"w", "w">>
          [] OTHER -> FALSE

\* the Neon register pool v0..v31
NumNeon == 32

\* [ [v{i}, ..., v{i+k-1}] for i in range(0, range_end) ]; a register is known
\* by its number
ConsecutiveFrom0(k, range_end) ==
    [ i \in 1..range_end |-> [ j \in 1..k |-> (i - 1) + (j - 1) ] ]

st4_range_end == 28
ld4_range_end == 28
ld2_range_end == 30
stack_vld2_lane_range_end == 31

\* the number of registers of the group of the variant (0: no group)
GroupSize(v) ==
    CASE v \in {"st4", "ld4"} -> 4
      [] v \in {"ld2", "stack_vld2_lane"} -> 2
      [] OTHER -> 0

\* args_in_combinations, args_out_combinations or args_in_out_combinations,
\* whichever the variant's parse sets: the registers of the single entry
Combinations(v) ==
    CASE v = "st4" -> ConsecutiveFrom0(4, st4_range_end)
      [] v = "ld4" -> ConsecutiveFrom0(4, ld4_range_end)
      [] v = "ld2" -> ConsecutiveFrom0(2, ld2_range_end)
      [] v = "stack_vld2_lane" -> ConsecutiveFrom0(2, stack_vld2_lane_range_end)
      [] OTHER -> <<>>

\* the instruction of variant v after its parse accepted
Parsed(v) == [variant |-> v, combinations |-> Combinations(v)]

\* the loop over the registry: every variant whose parse accepts is kept, in
\* registry order
Accepting(ln) == SelectSeq(Registry, LAMBDA v : Accepts(v, ln))

Rejecting(ln) == { Registry[i] : i \in { j \in DOMAIN Registry : ~Accepts(Registry[j], ln) } }

SomeRejected(accepted) == Len(accepted) < Len(Registry)

\* if len(insts) == 0
NoneAccepted(accepted) == Len(accepted) = 0

ParInit ==
    /\ par_pc = "called"
    /\ par_src \in Lines
    /\ par_insts = <<>>
    /\ par_exceptions = {}

\* no variant accepted: Instruction.ParsingException
ParserRaise ==
    /\ par_pc = "called"
    /\ NoneAccepted(Accepting(par_src))
    /\ par_pc' = "ParsingException"
    /\ par_exceptions' = Rejecting(par_src)
    /\ UNCHANGED <<par_src, par_insts>>
    /\ ParFrame

\* return insts
ParserReturn ==
    /\ par_pc = "called"
    /\ ~NoneAccepted(Accepting(par_src))
    /\ par_pc' = "returned"
    /\ par_insts' = [ i \in DOMAIN Accepting(par_src) |-> Parsed(Accepting(par_src)[i]) ]
    /\ par_exceptions' = Rejecting(par_src)
    /\ UNCHANGED par_src
    /\ ParFrame

ParNext == ParserRaise \/ ParserReturn

\* C15: Instruction.parser returns exactly one instruction, that of the first
\* variant in registry order whose pattern accepts the line
C15_FirstVariantWins ==
    par_pc = "returned" =>
        /\ Len(par_insts) = 1
        /\ \E i \in DOMAIN Registry :
               /\ Accepts(Registry[i], par_src)
               /\ \A j \in 1..(i - 1) : ~Accepts(Registry[j], par_src)
               /\ par_insts[1].variant = Registry[i]

\* C16: Instruction.parser raises ParsingException if and only if every
\* variant of the registry rejects the line; when at least one variant accepts
\* it returns a non-empty list, whatever the number of variants that rejected
C16_RaisesIffAllReject ==
    LET accepting == { i \in DOMAIN Registry : Accepts(Registry[i], par_src) }
    IN  par_pc # "called" =>
            /\ par_pc = "ParsingException" <=> accepting = {}
            /\ accepting # {} => par_pc = "returned" /\ par_insts # <<>>
            /\ par_pc = "ParsingException" => par_insts = <<>>

\* C16 witness: a line was returned for although most variants rejected it,
\* and another line was rejected by all
C16_Witness ==
    /\ par_pc = "returned"
    /\ par_insts # <<>>
    /\ Cardinality(par_exceptions) >= Len(Registry) - 1

\* C17: the combination list of a grouped instruction of k registers is the
\* list of all (v_i, ..., v_{i+k-1}) with 0 <= i <= 32 - k
C17_AllConsecutiveTuples ==
    \A n \in DOMAIN par_insts :
        LET k == GroupSize(par_insts[n].variant)
            combs == { par_insts[n].combinations[i] : i \in DOMAIN par_insts[n].combinations }
        IN  k > 0 =>
                combs = { [ j \in 1..k |-> i + j - 1 ] : i \in 0..(NumNeon - k) }

-----------------------------------------------------------------------------
-----------------------------------------------------------------------------
\* the successful attempts of the search before attempt n
SuccessesBefore(n) ==
    { m \in 1..(n - 1) : log[m].kind = "search" /\ log[m].success }

\* C19: in the external search the attempts are made one after the other; with
\* ext_bsearch_remember_successes every attempt after a success starts from the
\* code of the latest successful attempt, never from that of a failed one; before
\* the first success, and always without the hint, it starts from the original
\* source
C19_WarmStartFromLatestSuccess ==
    ~conf.variable_size =>
        \A n \in DOMAIN log :
            log[n].kind = "search" =>
                /\ log[n].success => log[n].result.id = n
                /\ log[n].src =
                       IF conf.ext_bsearch_remember_successes /\ SuccessesBefore(n) # {}
                       THEN log[MaxOf(SuccessesBefore(n))].result.code
                       ELSE SourceCode

\* C19 witness: an attempt that follows a failed attempt starts from the code of
\* the success before it
C19_Witness ==
    /\ ~conf.variable_size
    /\ conf.ext_bsearch_remember_successes
    /\ \E n \in DOMAIN log :
           /\ n >= 3
           /\ log[n].kind = "search"
           /\ ~log[n - 1].success
           /\ log[n].src # SourceCode
           /\ log[n].src = log[MaxOf(SuccessesBefore(n))].result.code

-----------------------------------------------------------------------------
(***************************************************************************)
(* The pair-fusion callbacks vins_parsing_cb and stack_vld2_lane_parsing_cb *)
(*                                                                         *)
(* core(inst, t, delete_list) is called for an instruction and its node t  *)
(* of the dataflow graph; t.dst_in_out[i] lists the consumers of the value *)
(* the instruction writes to its in-out operand i.  A consumer is known by *)
(* its instruction r.inst.                                                 *)
(***************************************************************************)
MaxConsumers == 2

Lanes == {"0", "1"}

NoInst == [variant |-> "none"]

\* vins <dst>, <src>, <lane> after vins.parse
VinsParsed(lane) ==
    [variant |-> "vins", lane |-> lane, detected_pair |-> FALSE, num_in |-> 1,
     num_out |-> 0, args_out |-> <<>>, arg_types_out |-> <<>>,
     num_in_out |-> 1, args_in_out |-> <<"v0">>, arg_types_in_out |-> <<"Neon">>,
     args_out_combinations |-> <<>>, args_in_out_combinations |-> <<>>]

\* stack_vld2_lane <dst1>, <dst2>, <src1>, <src2>, <lane>, <immediate> after
\* stack_vld2_lane.parse, with the targets (t1, t2)
StackVld2LaneParsed(t1, t2, lane) ==
    [variant |-> "stack_vld2_lane", lane |-> lane, detected_pair |-> FALSE,
     num_in |-> 1,
     num_out |-> 0, args_out |-> <<>>, arg_types_out |-> <<>>,
     num_in_out |-> 3, args_in_out |-> <<t1, t2, "x2">>,
     arg_types_in_out |-> <<"Neon", "Neon", "GPR">>,
     args_out_combinations |-> <<>>,
     args_in_out_combinations |-> Combinations("stack_vld2_lane")]

\* an instruction of another variant that reads the register
OtherReader ==
    [variant |-> "other", lane |-> "none", detected_pair |-> FALSE, num_in |-> 1,
     num_out |-> 0, args_out |-> <<>>, arg_types_out |-> <<>>,
     num_in_out |-> 0, args_in_out |-> <<>>, arg_types_in_out |-> <<>>,
     args_out_combinations |-> <<>>, args_in_out_combinations |-> <<>>]

\* the instructions that can consume the value written to register reg
Consumers(variant, reg) ==
    IF variant = "vins"
    THEN { VinsParsed(lane) : lane \in Lanes } \cup {OtherReader}
    ELSE { i \in { StackVld2LaneParsed(t1, t2, lane) :
                       t1 \in {"v0", "v1", "v3"}, t2 \in {"v0", "v1", "v3"}, lane \in Lanes } :
               /\ i.args_in_out[1] # i.args_in_out[2]
               /\ reg \in {i.args_in_out[1], i.args_in_out[2]}
               /\ "v3" \in {i.args_in_out[1], i.args_in_out[2]} => i.lane = "1" }
         \cup {OtherReader}

\* the lists of at most n distinct consumers
ConsumerLists(S, n) ==
    { q \in UNION { [1..k -> S] : k \in 0..n } :
          \A a \in DOMAIN q : \A b \in DOMAIN q : a # b => q[a] # q[b] }

\* vins_parsing_cb: the test for the first of a pair
VinsSucc(i, d) ==
    /\ Len(d[1]) = 1
    /\ d[1][1].variant = "vins"
    /\ d[1][1].args_in_out = i.args_in_out
    /\ {d[1][1].lane, i.lane} = {"0", "1"}

\* the in-out operand becomes an output and is still counted as in-out
VinsDemotedCountKept(i) ==
    [i EXCEPT !.num_out = 1,
              !.args_out = <<i.args_in_out[1]>>,
              !.arg_types_out = <<"Neon">>,
              !.args_in_out = <<>>,
              !.arg_types_in_out = <<>>,
              !.detected_pair = TRUE]

\* vins_parsing_cb: the in-out operand becomes an output
VinsDemoted(i) ==
    [i EXCEPT !.num_out = 1,
              !.args_out = <<i.args_in_out[1]>>,
              !.arg_types_out = <<"Neon">>,
              !.num_in_out = 0,
              !.args_in_out = <<>>,
              !.arg_types_in_out = <<>>,
              !.detected_pair = TRUE]

\* stack_vld2_lane_parsing_cb: the test for the first of a pair
StackVld2LaneSucc(i, d) ==
    /\ Len(d[1]) = 1
    /\ d[1][1].variant = "stack_vld2_lane"
    /\ SubSeq(d[1][1].args_in_out, 1, 2) = SubSeq(i.args_in_out, 1, 2)
    /\ {d[1][1].lane, i.lane} = {"0", "1"}

\* stack_vld2_lane_parsing_cb: the two vectors become outputs
StackVld2LaneDemoted(i) ==
    [i EXCEPT !.num_out = 2,
              !.args_out = <<i.args_in_out[1], i.args_in_out[2]>>,
              !.arg_types_out = <<"Neon", "Neon">>,
              !.args_out_combinations = i.args_in_out_combinations,
              !.num_in_out = 1,
              !.args_in_out = <<i.args_in_out[3]>>,
              !.arg_types_in_out = <<"GPR">>,
              !.args_in_out_combinations = <<>>,
              !.detected_pair = TRUE]

\* The callback is called for a freshly parsed instruction.
CbInit ==
    /\ cb_pc = "called"
    /\ cb_ret = FALSE
    /\ \/ \E lane \in Lanes :
              /\ cb_inst = VinsParsed(lane)
              /\ \E q \in ConsumerLists(Consumers("vins", "v0"), MaxConsumers) :
                     dst_in_out = <<q>>
       \/ \E lane \in Lanes :
              /\ cb_inst = StackVld2LaneParsed("v0", "v1", lane)
              /\ \E q1 \in ConsumerLists(Consumers("stack_vld2_lane", "v0"), MaxConsumers) :
                 \E q2 \in ConsumerLists(Consumers("stack_vld2_lane", "v1"), MaxConsumers) :
                 \E q3 \in ConsumerLists({OtherReader}, 1) :
                     dst_in_out = <<q1, q2, q3>>
    /\ cb_trues = 0

\* vins_parsing_cb's core
VinsParsingCb ==
    /\ cb_pc = "called"
    /\ cb_inst.variant = "vins"
    /\ cb_pc' = "returned"
    /\ IF cb_inst.detected_pair
       THEN cb_ret' = FALSE /\ UNCHANGED cb_inst
       ELSE IF ~VinsSucc(cb_inst, dst_in_out)
            THEN cb_ret' = FALSE /\ UNCHANGED cb_inst
            ELSE cb_ret' = TRUE /\ cb_inst' = VinsDemoted(cb_inst)
    /\ cb_trues' = (IF cb_ret' THEN cb_trues + 1 ELSE cb_trues)
    /\ UNCHANGED dst_in_out
    /\ CbFrame

\* stack_vld2_lane_parsing_cb's core
StackVld2LaneParsingCb ==
    /\ cb_pc = "called"
    /\ cb_inst.variant = "stack_vld2_lane"
    /\ cb_pc' = "returned"
    /\ IF cb_inst.detected_pair
       THEN cb_ret' = FALSE /\ UNCHANGED cb_inst
       ELSE IF ~StackVld2LaneSucc(cb_inst, dst_in_out)
            THEN cb_ret' = FALSE /\ UNCHANGED cb_inst
            ELSE cb_ret' = TRUE /\ cb_inst' = StackVld2LaneDemoted(cb_inst)
    /\ cb_trues' = (IF cb_ret' THEN cb_trues + 1 ELSE cb_trues)
    /\ UNCHANGED dst_in_out
    /\ CbFrame

\* the nodes the dataflow graph can hold for the instruction: one list of
\* consumers per in-out operand
NodesOf(i) ==
    IF i.variant = "vins"
    THEN IF i.detected_pair
         THEN { <<>> }
         ELSE { <<q>> : q \in ConsumerLists(Consumers("vins", "v0"), MaxConsumers) }
    ELSE IF i.detected_pair
         THEN { <<q3>> : q3 \in ConsumerLists({OtherReader}, 1) }
         ELSE { <<q1, q2, q3>> :
                    q1 \in ConsumerLists(Consumers("stack_vld2_lane", "v0"), MaxConsumers),
                    q2 \in ConsumerLists(Consumers("stack_vld2_lane", "v1"), MaxConsumers),
                    q3 \in ConsumerLists({OtherReader}, 1) }

\* The callback reported a change: the dataflow graph is built again and the
\* callback is called for the instruction once more.
Rebuild ==
    /\ cb_pc = "returned"
    /\ cb_ret
    /\ cb_pc' = "called"
    /\ dst_in_out' \in NodesOf(cb_inst)
    /\ cb_ret' = FALSE
    /\ UNCHANGED <<cb_inst, cb_trues>>
    /\ CbFrame

CbNext == VinsParsingCb \/ StackVld2LaneParsingCb \/ Rebuild

\* num_in + num_out + num_in_out
OperandCount(i) == i.num_in + i.num_out + i.num_in_out

\* C21: the callback of an instruction returns True at most once; a demotion
\* keeps the number of operands; called for an instruction it has demoted, the
\* callback returns False and leaves the instruction as it is, so that the
\* rebuilds the instruction causes are at most one
C21_DemotesAtMostOnce ==
    [][ (cb_pc = "called" /\ cb_pc' = "returned") =>
            /\ cb_trues' <= 1
            /\ cb_ret' =>
                   /\ ~cb_inst.detected_pair
                   /\ cb_inst'.detected_pair
                   /\ OperandCount(cb_inst') = OperandCount(cb_inst)
                   /\ Len(cb_inst'.args_out) = cb_inst'.num_out
                   /\ Len(cb_inst'.args_in_out) = cb_inst'.num_in_out
            /\ cb_inst.detected_pair => (~cb_ret' /\ cb_inst' = cb_inst) ]_vars

\* C21 witness: the graph was rebuilt after the demotion and the callback,
\* called once more, returned False
C21_Witness ==
    /\ cb_pc = "returned"
    /\ ~cb_ret
    /\ cb_trues = 1
    /\ cb_inst.detected_pair

\* r.inst pairs with the demoted instruction i: same variant, same target
\* registers, lanes together {0, 1}
IsPaired(r, i) ==
    /\ r.variant = i.variant
    /\ SubSeq(r.args_in_out, 1, Len(i.args_out)) = i.args_out
    /\ {r.lane, i.lane} = {"0", "1"}

\* C20: a callback demotes in-out registers to outputs only when, for every
\* demoted register, the sole consumer of the value written to it is the
\* paired instruction; for stack_vld2_lane this holds for both registers
C20_DemotesOnlySoleConsumer ==
    (cb_pc = "returned" /\ cb_ret) =>
        \A n \in DOMAIN cb_inst.args_out :
            /\ Len(dst_in_out[n]) = 1
            /\ IsPaired(dst_in_out[n][1], cb_inst)

-----------------------------------------------------------------------------
(***************************************************************************)
(* make_idx_list_consecutive, step by step                                 *)
(*                                                                         *)
(* The positions cur_start and cur_end are multiples of 1 / One; the       *)
(* factors are powers of two and the increments multiples of 1 / One, so   *)
(* that the floating-point sums and products of the code are exact.  The   *)
(* increment is the value of split_heuristic_stepsize, which is not        *)
(* validated, or 1 / (2 * factor), or 1 / factor in the dry pass.          *)
(***************************************************************************)
MaxFactorLog == 2
MaxWinBody   == 5
MinIncrement == 0 - 2

RECURSIVE Pow2(_)
Pow2(k) == IF k = 0 THEN 1 ELSE 2 * Pow2(k - 1)

\* the position 1.0
One == Pow2(MaxFactorLog + 1)

\* the longest list of a loop that ends: the loop is followed up to one
\* window more
MaxWindows == One + 1

WinInit ==
    /\ win_pc = "loop"
    /\ \E k \in 0..MaxFactorLog : win_factor = Pow2(k)
    /\ win_increment \in MinIncrement..One
    /\ \E n \in 0..MaxWinBody : win_body = [k \in 1..n |-> Line(k)]
    /\ win_start = 0
    /\ win_end = 0
    /\ win_fracs = <<>>
    /\ win_idxs = <<>>

\* chunk_len = 1 / factor
ChunkLen(factor) == One \div factor

\* cur_end = cur_start + chunk_len, without the cut at 1.0
WindowEndUncut(from, chunk_len) == from + chunk_len
\* cur_end = cur_start + chunk_len; if cur_end > 1.0: cur_end = 1.0
WindowEnd(from, chunk_len) ==
    IF from + chunk_len > One THEN One ELSE from + chunk_len

\* one turn of the while loop
WinLoop ==
    /\ win_pc = "loop"
    /\ win_end < One
    /\ Len(win_fracs) < MaxWindows
    /\ win_end' = WindowEnd(win_start, ChunkLen(win_factor))
    /\ win_fracs' = Append(win_fracs, <<win_start, win_end'>>)
    /\ win_start' = win_start + win_increment
    /\ UNCHANGED <<win_pc, win_factor, win_increment, win_body, win_idxs>>
    /\ WinFrame

\* after the loop: _idxs_from_fractions of the starts and of the ends, zipped,
\* and the filter that drops the empty windows
WinReturn ==
    /\ win_pc = "loop"
    /\ win_end >= One
    /\ LET idx == [n \in DOMAIN win_fracs |->
                      <<IdxFromFraction(<<win_fracs[n][1], One>>, win_body),
                        IdxFromFraction(<<win_fracs[n][2], One>>, win_body)>>]
           not_empty(x) == x[1] # x[2]
       IN  win_idxs' = SelectSeq(idx, not_empty)
    /\ win_pc' = "done"
    /\ UNCHANGED <<win_factor, win_increment, win_body, win_start, win_end, win_fracs>>
    /\ WinFrame

WinNext == WinLoop \/ WinReturn

\* C24: with a step 0 < increment <= 1 / factor, the windows of a block are
\* non-empty index ranges inside [0, len(block)], their starts do not decrease,
\* the last window ends at len(block), and every index of the block lies in
\* one of them
C24_WindowsCoverBlock ==
    (/\ win_pc = "done"
     /\ 0 < win_increment
     /\ win_increment <= ChunkLen(win_factor)
     /\ Len(win_body) >= 1) =>
        /\ win_idxs # <<>>
        /\ \A n \in DOMAIN win_idxs :
              /\ 0 <= win_idxs[n][1]
              /\ win_idxs[n][1] < win_idxs[n][2]
              /\ win_idxs[n][2] <= Len(win_body)
        /\ \A n \in 1..(Len(win_idxs) - 1) : win_idxs[n][1] <= win_idxs[n + 1][1]
        /\ win_idxs[Len(win_idxs)][2] = Len(win_body)
        /\ \A i \in 0..(Len(win_body) - 1) :
              \E n \in DOMAIN win_idxs : win_idxs[n][1] <= i /\ i < win_idxs[n][2]

C24_Witness ==
    /\ win_pc = "done"
    /\ 0 < win_increment
    /\ win_increment < ChunkLen(win_factor)
    /\ win_factor > 1
    /\ Len(win_body) >= 3
    /\ Len(win_idxs) >= 3
    /\ Len(win_idxs) < Len(win_fracs)

-----------------------------------------------------------------------------
ExIdle ==
    /\ lbl = LOOP /\ source = <<>> /\ exhausted = FALSE /\ l = None /\ keep = FALSE
    /\ state = 0 /\ pre = <<>> /\ body = <<>> /\ post = <<>> /\ regs = 0
    /\ xpc = "idle"

DrvIdle ==
    /\ conf = NoConfig /\ c = NoConfig /\ ret = NoResult /\ err = "none"
    /\ diag = {} /\ log = <<>>

BsIdle ==
    /\ bpc = "idle" /\ core = NoCore
    /\ val = 0 /\ last_failure = 0 /\ last_success = 0 /\ last_success_core = NoCore
    /\ last_successful = NoCode /\ cur_attempt = 0 /\ min_stalls = 0
    /\ first_result = NoResult

PerIdle == ppc = "idle" /\ conf0 = NoConfig /\ body_inputs = {}

NvIdle ==
    /\ npc = "idle" /\ old = <<>> /\ nbody = <<>> /\ insts = <<>> /\ depths = <<>>
    /\ ni = 1

LinIdle ==
    /\ lpc = "idle" /\ lbody = <<>> /\ lpre = <<>> /\ lpost = <<>> /\ cur_body = <<>>
    /\ orig_conf = NoConfig /\ idx_lst = <<>> /\ in_dry = FALSE
    /\ passes_left = 0 /\ stall_map = {} /\ naive_done = FALSE
    /\ solved_after_naive = 0

HalIdle ==
    /\ hpc = "idle" /\ hbody = <<>> /\ lin_kernel = <<>> /\ kernel = <<>>
    /\ preamble = <<>> /\ postamble = <<>> /\ num_exceptional_iterations = 0

ParIdle == par_pc = "idle" /\ par_src = NoLine /\ par_insts = <<>> /\ par_exceptions = {}

CbIdle == cb_pc = "idle" /\ cb_inst = NoInst /\ dst_in_out = <<>> /\ cb_ret = FALSE
          /\ cb_trues = 0

WinIdle == /\ win_pc = "idle" /\ win_factor = 1 /\ win_increment = 0 /\ win_body = <<>>
           /\ win_start = 0 /\ win_end = 0 /\ win_fracs = <<>> /\ win_idxs = <<>>

InitExtract == ExInit /\ DrvIdle /\ BsIdle /\ PerIdle /\ NvIdle /\ LinIdle /\ HalIdle /\ ParIdle /\ CbIdle /\ WinIdle
SpecExtract == InitExtract /\ [][ExNext]_vars

InitBinsearch == BsInit /\ ExIdle /\ PerIdle /\ NvIdle /\ LinIdle /\ HalIdle /\ ParIdle /\ CbIdle /\ WinIdle
SpecBinsearch == InitBinsearch /\ [][BsNext]_vars
\* the search is one sequential call: a step that can be taken is taken
SpecBinsearchFair == SpecBinsearch /\ WF_vars(BsNext)

InitPeriodic == PerInit /\ ExIdle /\ BsIdle /\ NvIdle /\ LinIdle /\ HalIdle /\ ParIdle /\ CbIdle /\ WinIdle
SpecPeriodic == InitPeriodic /\ [][PerNext]_vars

InitNaive == NvInit /\ ExIdle /\ DrvIdle /\ BsIdle /\ PerIdle /\ LinIdle /\ HalIdle /\ ParIdle /\ CbIdle /\ WinIdle
SpecNaive == InitNaive /\ [][NvNext]_vars
\* the loop over the positions is sequential code: a turn that can be taken is
\* taken
SpecNaiveFair == SpecNaive /\ WF_vars(NvNext)

InitLinear == LinInit /\ ExIdle /\ BsIdle /\ PerIdle /\ NvIdle /\ HalIdle /\ ParIdle /\ CbIdle /\ WinIdle
SpecLinear == InitLinear /\ [][LinNext]_vars

InitHalving == HalInit /\ ExIdle /\ BsIdle /\ PerIdle /\ NvIdle /\ LinIdle /\ ParIdle /\ CbIdle /\ WinIdle
SpecHalving == InitHalving /\ [][HalNext]_vars

InitParser == ParInit /\ ExIdle /\ DrvIdle /\ BsIdle /\ PerIdle /\ NvIdle /\ LinIdle /\ HalIdle /\ CbIdle /\ WinIdle
SpecParser == InitParser /\ [][ParNext]_vars

InitPairFusion == CbInit /\ ExIdle /\ DrvIdle /\ BsIdle /\ PerIdle /\ NvIdle /\ LinIdle /\ HalIdle /\ ParIdle /\ WinIdle
SpecPairFusion == InitPairFusion /\ [][CbNext]_vars

InitWindows == WinInit /\ ExIdle /\ DrvIdle /\ BsIdle /\ PerIdle /\ NvIdle /\ LinIdle /\ HalIdle /\ ParIdle /\ CbIdle
SpecWindows == InitWindows /\ [][WinNext]_vars
\* the loop is sequential code: a turn that can be taken is taken
SpecWindowsFair == SpecWindows /\ WF_vars(WinNext)

=============================================================================
